---------------------------- MODULE Spec2Model ----------------------------
(***************************************************************************)
(* RetroOS kernel core (retro-rs/kernel): the physical-page allocator      *)
(* (phys_mm.rs), the recursive page-table window with demand paging, COW   *)
(* and fork (paging2.rs, traps.rs), the thread table and scheduler         *)
(* (thread.rs), the syscalls that drive them (syscalls.rs) and the start   *)
(* of init (startup.rs, elf.rs).                                           *)
(*                                                                         *)
(* Virtual page indices, entries-per-page and the window layout carry the  *)
(* values of the source, for legacy 32-bit paging (the mode enable_paging  *)
(* picks on a CPU without PAE) and for PAE paging with or without NX.      *)
(* Page tables are kept sparsely: a table page is a function from the      *)
(* indices of its non-zero entries.  The physical table, the thread table  *)
(* and the page-directory pool are scaled down (MAX_PAGES, LOW_PAGES,      *)
(* MAX_THREADS, NUM_PAGE_DIRS).                                            *)
(*                                                                         *)
(* User-mode code is unconstrained: whenever a user thread is on the CPU   *)
(* it may touch any page and make any syscall.                             *)
(***************************************************************************)
EXTENDS Integers, Sequences, FiniteSets, TLC

VARIABLES
    PAGE_REFS,           \* phys_mm.rs: reference count per physical page
    NEXT_FREE,           \* phys_mm.rs: allocation cursor
    mem,                 \* physical memory: page -> [ent, dat]
    cr3,                 \* physical page of the root table loaded in CR3
    NUM_FREE_PAGE_DIRS,  \* paging2.rs: free slots of the page-directory pool
    PAGING_MODE,         \* paging2.rs: "Legacy" or "Pae", set by enable_paging
    NX_ENABLED,          \* paging2.rs: EFER.NXE has been set
    mapped_end,          \* heap.rs: first page index above the mapped heap
    THREADS,             \* thread.rs: the TCB array
    CURRENT_THREAD,      \* thread.rs: index of the current TCB, NULL if none
    SEED,                \* thread.rs: scheduler PRNG state, eight little-endian bytes
    regs,                \* the trap frame on top of the kernel stack
    mode,                \* where control is: boot phases, "user", "panic", "hang"
    last,                \* the last operation: name, arguments, result, pre-state
    prev,                \* the operation before it
    ops,                 \* capped calls made: allocator calls (MaxOps), schedule calls (MaxSched)
    pic,                 \* the two 8259 PICs: mask (IMR) and in-service (ISR) registers
    IFLAG,               \* EFLAGS.IF of the running context
    IRQ_HANDLERS,        \* irq.rs: handler registered per IRQ, "None" if none
    TIMER_TICKS,         \* irq.rs: timer tick counter
    irq_stack,           \* the handle_irq activations in progress, innermost last
    head,                \* heap.rs: the free list, blocks [addr, size] in list order
    allocated,           \* the blocks alloc has returned that are not yet deallocated
    VGA,                 \* vga.rs: the global Vga state (cursor, escape parser)
    put_stack            \* the console writers in progress, innermost last

vars == << PAGE_REFS, NEXT_FREE, mem, cr3, NUM_FREE_PAGE_DIRS, PAGING_MODE, NX_ENABLED,
           mapped_end, THREADS, CURRENT_THREAD, SEED, regs, mode, last, prev, ops,
           pic, IFLAG, IRQ_HANDLERS, TIMER_TICKS, irq_stack, head, allocated,
           VGA, put_stack >>

\* the interrupt controller and the IRQ path, which the memory and thread
\* operations leave alone
dev == << pic, IFLAG, IRQ_HANDLERS, TIMER_TICKS, irq_stack >>

\* remap_pic has run and nothing is registered: every line masked except the
\* cascade, nothing in service, interrupts off
DevInit ==
    /\ pic = [ MASTER |-> [ imr |-> (0 .. 7) \ { 2 }, isr |-> {} ],
               SLAVE |-> [ imr |-> 0 .. 7, isr |-> {} ] ]
    /\ IFLAG = FALSE
    /\ IRQ_HANDLERS = [ i \in 0 .. 15 |-> "None" ]
    /\ TIMER_TICKS = 0
    /\ irq_stack = << >>

\* the free list of the kernel heap and the blocks in use
kheap == << head, allocated >>

\* heap::init has run: KernelAllocator::init leaves the list empty
HeapInit == head = << >> /\ allocated = {}

\* the console
console == << VGA, put_stack >>

\* vga.rs
VGA_WIDTH == 80
VGA_HEIGHT == 25
VGA_SIZE == VGA_WIDTH * VGA_HEIGHT

\* Vga::new(), nothing written yet; `cached` tells whether the build keeps
\* the cursor of a putchar call in registers until the call returns
Vga_new(cached) ==
    [ cursor_x |-> 0, cursor_y |-> 0, esc_state |-> "Normal", cached |-> cached ]

ConsoleInit == VGA = Vga_new(FALSE) /\ put_stack = << >>

-----------------------------------------------------------------------------
(* Bounds of the model                                                     *)

\* tracked physical pages (64 * 1024 in phys_mm.rs:13)
MAX_PAGES == 15
\* end of the RAM the small memory map reports
RamEnd == 10
\* pages of the first 1 MiB (256 in phys_mm.rs:58 and :101)
LOW_PAGES == 2
\* allocator calls per behaviour of SpecPhys
MaxOps == 2
\* slots of the thread table (1024 in thread.rs:13)
MAX_THREADS == 4
\* calls of schedule per behaviour (SEED never repeats within reach)
MaxSched == 2
\* slots of the page-directory pool (1024 in paging2.rs:578)
NUM_PAGE_DIRS == 2
\* faults taken and retried within one memory access before it is given up
\* as never completing
MaxFaults == 6

NULL == -1
NONE == -1
HANG == -2

-----------------------------------------------------------------------------
(* phys_mm.rs                                                              *)

RESERVED == 255

PageIdx == 0 .. (MAX_PAGES - 1)

\* Physical layout handed over by the bootloader (boot/src/lib.rs:363-365):
\* the kernel ELF file is buffered at 1 MiB and the image is placed on the
\* next page boundary after it, so one RAM page lies below the image.
kernel_low == LOW_PAGES + 1
PD_PHYS == kernel_low            \* KERNEL_PAGES.pd
PT_KERNEL_PHYS == kernel_low + 1 \* KERNEL_PAGES.pt_kernel
ZERO_PHYS == kernel_low + 2      \* ZERO_PAGE
SCRATCH_PHYS == kernel_low + 3   \* SCRATCH
kernel_high == kernel_low + 4

\* The E820 map: usable RAM (type 1) as a set of page ranges [lo, hi).
MMap == { [lo |-> 0, hi |-> 1], [lo |-> LOW_PAGES, hi |-> RamEnd] }

\* A machine with RAM up to the end of the table.
MMapAll == { [lo |-> 0, hi |-> 1], [lo |-> LOW_PAGES, hi |-> MAX_PAGES] }

init_phys_mm(mmap, klow, khigh) ==
    [ refs |->
        [ p \in PageIdx |->
            IF p >= klow /\ p < khigh THEN 1
            ELSE IF p < LOW_PAGES THEN RESERVED
            ELSE IF \E r \in mmap : p >= r.lo /\ p < r.hi THEN 0
            ELSE RESERVED ],
      next |-> khigh ]

mark_reserved(refs, low_page, high_page) ==
    [ p \in PageIdx |->
        IF p >= low_page /\ p < high_page THEN RESERVED ELSE refs[p] ]

\* The scan loop of alloc_phys_page; fuel counts the iterations left before
\* the loop has provably revisited a value of page (it never terminates).
RECURSIVE alloc_scan(_, _, _, _)
alloc_scan(refs, start, page0, fuel) ==
    LET page == IF page0 >= MAX_PAGES THEN LOW_PAGES ELSE page0 IN
    IF fuel = 0
    THEN [ ret |-> HANG, refs |-> refs, next |-> start ]
    ELSE IF refs[page] = 0
    THEN [ ret |-> page, refs |-> [refs EXCEPT ![page] = 1], next |-> page + 1 ]
    ELSE IF page + 1 = start
    THEN [ ret |-> NONE, refs |-> refs, next |-> start ]
    ELSE alloc_scan(refs, start, page + 1, fuel - 1)

\* mutant: the scan stops at the end of the table instead of wrapping
RECURSIVE alloc_scan_nowrap(_, _, _, _)
alloc_scan_nowrap(refs, start, page0, fuel) ==
    IF page0 >= MAX_PAGES \/ fuel = 0
    THEN [ ret |-> NONE, refs |-> refs, next |-> start ]
    ELSE IF refs[page0] = 0
    THEN [ ret |-> page0, refs |-> [refs EXCEPT ![page0] = 1], next |-> page0 + 1 ]
    ELSE alloc_scan_nowrap(refs, start, page0 + 1, fuel - 1)

alloc_phys_page_nowrap(refs, next) ==
    alloc_scan_nowrap(refs, next, next, MAX_PAGES + 2)

\* mutant: the page found is handed out with its count left at 0
alloc_phys_page_uncounted(refs, next) ==
    LET r == alloc_scan(refs, next, next, MAX_PAGES + 2) IN [ r EXCEPT !.refs = refs ]

alloc_phys_page(refs, next) ==
    alloc_scan(refs, next, next, MAX_PAGES + 2)

\* mutant: the RESERVED sentinel is not checked
free_phys_page_noreserved(refs, page) ==
    IF page >= MAX_PAGES THEN [ ret |-> FALSE, refs |-> refs ]
    ELSE LET count == refs[page] IN
         IF count = 0
         THEN [ ret |-> FALSE, refs |-> refs ]
         ELSE [ ret |-> (count - 1 = 0), refs |-> [refs EXCEPT ![page] = count - 1] ]

\* mutant: reports "now free" from the count before the decrement
free_phys_page_stale(refs, page) ==
    IF page >= MAX_PAGES THEN [ ret |-> FALSE, refs |-> refs ]
    ELSE LET count == refs[page] IN
         IF count = 0 \/ count = RESERVED
         THEN [ ret |-> FALSE, refs |-> refs ]
         ELSE [ ret |-> (count = 0), refs |-> [refs EXCEPT ![page] = count - 1] ]

free_phys_page(refs, page) ==
    IF page >= MAX_PAGES THEN [ ret |-> FALSE, refs |-> refs ]
    ELSE LET count == refs[page] IN
         IF count = 0 \/ count = RESERVED
         THEN [ ret |-> FALSE, refs |-> refs ]
         ELSE [ ret |-> (count - 1 = 0), refs |-> [refs EXCEPT ![page] = count - 1] ]

\* mutant: the limit test is off by one (count >= RESERVED)
inc_shared_count_offbyone(refs, page) ==
    IF page >= MAX_PAGES THEN [ ret |-> FALSE, refs |-> refs ]
    ELSE LET count == refs[page] IN
         IF count = 0 \/ count >= RESERVED
         THEN [ ret |-> FALSE, refs |-> refs ]
         ELSE [ ret |-> TRUE, refs |-> [refs EXCEPT ![page] = count + 1] ]

inc_shared_count(refs, page) ==
    IF page >= MAX_PAGES THEN [ ret |-> FALSE, refs |-> refs ]
    ELSE LET count == refs[page] IN
         IF count = 0 \/ count >= RESERVED - 1
         THEN [ ret |-> FALSE, refs |-> refs ]
         ELSE [ ret |-> TRUE, refs |-> [refs EXCEPT ![page] = count + 1] ]

get_ref_count(refs, page) ==
    IF page >= MAX_PAGES THEN RESERVED ELSE refs[page]

free_page_count(refs) == Cardinality({ p \in PageIdx : refs[p] = 0 })

\* The table KernelInit leaves behind (lib.rs:149-158): init_phys_mm, then
\* the zero page is taken out of circulation.
BootRefs ==
    mark_reserved(init_phys_mm(MMap, kernel_low, kernel_high).refs,
                  ZERO_PHYS, ZERO_PHYS + 1)

-----------------------------------------------------------------------------
(* SpecPhys: the allocator alone, started from tables its own API can      *)
(* build on top of BootRefs (a RAM page may be free, held once, held 253   *)
(* or 254 times, or reserved by a hole of the memory map).                 *)

RefSamples == { 0, 1, RESERVED - 2, RESERVED - 1, RESERVED }

RamPages == { p \in PageIdx : BootRefs[p] = 0 }

\* page arguments: a low page, every RAM page, a kernel page, one past the end
PageArgs == { 0, kernel_low, MAX_PAGES } \cup RamPages

NoOp == [ op |-> "none", arg |-> NONE, ret |-> NONE, pre |-> << >> ]

InitPhys ==
    /\ PAGE_REFS \in { [ p \in PageIdx |-> IF p \in RamPages THEN f[p] ELSE BootRefs[p] ] :
                         f \in [ RamPages -> RefSamples ] }
    /\ NEXT_FREE \in kernel_high .. RamEnd
    /\ mem = << >>
    /\ cr3 = PD_PHYS
    /\ NUM_FREE_PAGE_DIRS = 0
    /\ PAGING_MODE = "Legacy"
    /\ NX_ENABLED = FALSE
    /\ mapped_end = 0
    /\ THREADS = << >>
    /\ CURRENT_THREAD = NULL
    /\ SEED = 0
    /\ regs = << >>
    /\ mode = "phys"
    /\ last = NoOp
    /\ prev = NoOp
    /\ ops = 0
    /\ DevInit
    /\ HeapInit
    /\ ConsoleInit

PhysFrame ==
    UNCHANGED << mem, cr3, NUM_FREE_PAGE_DIRS, PAGING_MODE, NX_ENABLED, dev, kheap, console, mapped_end, THREADS, CURRENT_THREAD,
                 SEED, regs, mode >>

AllocPhysPage ==
    /\ mode = "phys"
    /\ ops < MaxOps
    /\ LET r == alloc_phys_page(PAGE_REFS, NEXT_FREE) IN
         /\ PAGE_REFS' = r.refs
         /\ NEXT_FREE' = r.next
         /\ last' = [ op |-> "alloc", arg |-> NEXT_FREE, ret |-> r.ret, pre |-> PAGE_REFS ]
    /\ prev' = last
    /\ ops' = ops + 1
    /\ PhysFrame

FreePhysPage(page) ==
    /\ mode = "phys"
    /\ ops < MaxOps
    /\ LET r == free_phys_page(PAGE_REFS, page) IN
         /\ PAGE_REFS' = r.refs
         /\ last' = [ op |-> "free", arg |-> page, ret |-> r.ret, pre |-> PAGE_REFS ]
    /\ prev' = last
    /\ ops' = ops + 1
    /\ UNCHANGED NEXT_FREE
    /\ PhysFrame

IncSharedCount(page) ==
    /\ mode = "phys"
    /\ ops < MaxOps
    /\ LET r == inc_shared_count(PAGE_REFS, page) IN
         /\ PAGE_REFS' = r.refs
         /\ last' = [ op |-> "inc", arg |-> page, ret |-> r.ret, pre |-> PAGE_REFS ]
    /\ prev' = last
    /\ ops' = ops + 1
    /\ UNCHANGED NEXT_FREE
    /\ PhysFrame

NextPhys ==
    \/ AllocPhysPage
    \/ \E page \in PageArgs : FreePhysPage(page)
    \/ \E page \in PageArgs : IncSharedCount(page)

SpecPhys == InitPhys /\ [][NextPhys]_vars

-----------------------------------------------------------------------------
(* Claims about the allocator (SpecPhys)                                   *)

\* C4: a page whose count is RESERVED keeps that count through every
\* alloc_phys_page, free_phys_page and inc_shared_count, and alloc_phys_page
\* never returns it.
C4_ReservedUntouched ==
    [][ \A p \in PageIdx :
          PAGE_REFS[p] = RESERVED =>
            /\ PAGE_REFS'[p] = RESERVED
            /\ ~(last'.op = "alloc" /\ last'.ret = p) ]_vars

C4_Witness ==
    /\ last.op = "free"
    /\ last.arg \in PageIdx
    /\ last.pre[last.arg] = RESERVED
    /\ prev.op = "inc"
    /\ prev.arg = last.arg

IncThenFree ==
    /\ prev.op = "inc"
    /\ last.op = "free"
    /\ last.arg = prev.arg
    /\ last.arg \in PageIdx

\* C5 as stated: inc_shared_count(p) immediately followed by
\* free_phys_page(p) restores the count p had before, for every starting
\* value 0, 1..254 and RESERVED.
C5_Original ==
    IncThenFree => PAGE_REFS[last.arg] = prev.pre[last.arg]

\* C5 amended: the pair restores the count for every starting value except
\* RESERVED - 1 (254); from 254 the increment is refused and the free still
\* decrements, leaving 253.
C5_IncFreeRestores ==
    IncThenFree =>
        LET before == prev.pre[last.arg] IN
        IF before = RESERVED - 1
        THEN PAGE_REFS[last.arg] = RESERVED - 2 /\ prev.ret = FALSE
        ELSE PAGE_REFS[last.arg] = before

C5_Witness ==
    /\ IncThenFree
    /\ prev.ret = TRUE
    /\ prev.pre[last.arg] = RESERVED - 2
    /\ PAGE_REFS[last.arg] = RESERVED - 2

\* C6: alloc_phys_page returns Some(p) only for a page p at or above the
\* first megabyte whose count was 0, sets that count to 1 and changes no
\* other entry; it returns None only when no tracked page has count 0, and
\* then changes nothing.
C6_AllocContract ==
    last.op = "alloc" =>
        /\ last.ret = NONE =>
              /\ \A p \in PageIdx : last.pre[p] # 0
              /\ PAGE_REFS = last.pre
        /\ last.ret # NONE =>
              /\ last.ret >= LOW_PAGES
              /\ last.ret < MAX_PAGES
              /\ last.pre[last.ret] = 0
              /\ PAGE_REFS = [ last.pre EXCEPT ![last.ret] = 1 ]

C6_Witness ==
    /\ last.op = "alloc"
    /\ last.ret # NONE
    /\ last.ret < last.arg
    /\ prev.op = "free"
    /\ prev.ret = TRUE
    /\ prev.arg = last.ret

\* C7: free_phys_page on a count in 1..254 decrements it by exactly one and
\* returns true exactly when the new count is 0; on a count of 0, on
\* RESERVED and on an out-of-range page it returns false and leaves the
\* table unchanged.
C7_FreeContract ==
    last.op = "free" =>
        IF last.arg \in PageIdx /\ last.pre[last.arg] \in 1 .. (RESERVED - 1)
        THEN /\ PAGE_REFS = [ last.pre EXCEPT ![last.arg] = last.pre[last.arg] - 1 ]
             /\ last.ret = (PAGE_REFS[last.arg] = 0)
        ELSE /\ last.ret = FALSE
             /\ PAGE_REFS = last.pre

C7_Witness ==
    /\ last.op = "free"
    /\ last.ret = TRUE
    /\ PAGE_REFS[last.arg] = 0
    /\ prev.op = "free"
    /\ prev.arg = MAX_PAGES

\* C8: inc_shared_count returns false and leaves the count unchanged at 0,
\* at 254 and at RESERVED; at every other count it adds one and returns
\* true; a live count never becomes 255.
C8_IncContract ==
    last.op = "inc" =>
        /\ IF last.arg \in PageIdx
              /\ last.pre[last.arg] \notin { 0, RESERVED - 1, RESERVED }
           THEN /\ PAGE_REFS = [ last.pre EXCEPT ![last.arg] = last.pre[last.arg] + 1 ]
                /\ last.ret = TRUE
           ELSE /\ last.ret = FALSE
                /\ PAGE_REFS = last.pre
        /\ \A p \in PageIdx : last.pre[p] # RESERVED => PAGE_REFS[p] # RESERVED

C8_Witness ==
    /\ last.op = "inc"
    /\ last.arg \in PageIdx
    /\ last.pre[last.arg] = RESERVED - 1
    /\ last.ret = FALSE
    /\ prev.op = "inc"
    /\ prev.ret = TRUE
    /\ prev.arg = last.arg

-----------------------------------------------------------------------------
(* 64-bit unsigned arithmetic on eight little-endian bytes                 *)

RECURSIVE carry_bytes(_, _, _, _)
carry_bytes(cols, k, carry, acc) ==
    IF k > 8 THEN acc
    ELSE LET t == cols[k] + carry IN
         carry_bytes(cols, k + 1, t \div 256, Append(acc, t % 256))

RECURSIVE mul_column(_, _, _, _)
mul_column(a, b, k, i) ==
    IF i > k THEN 0 ELSE a[i] * b[k + 1 - i] + mul_column(a, b, k, i + 1)

wrapping_mul(a, b) ==
    carry_bytes([ k \in 1 .. 8 |-> mul_column(a, b, k, 1) ], 1, 0, << >>)

wrapping_add(a, b) ==
    carry_bytes([ k \in 1 .. 8 |-> a[k] + b[k] ], 1, 0, << >>)

RECURSIVE rem_bytes(_, _, _, _)
rem_bytes(a, m, k, r) ==
    IF k = 0 THEN r ELSE rem_bytes(a, m, k - 1, (r * 256 + a[k]) % m)

rem_u64(a, m) == rem_bytes(a, m, 8, 0)

-----------------------------------------------------------------------------
(* thread.rs                                                               *)

ThreadIdx == 0 .. (MAX_THREADS - 1)

USER_CS == 35

\* CpuState / Regs: the fields the model follows
CpuState_empty == [ cs |-> 0, eip |-> 0, rax |-> 0 ]

init_user_process(entry) == [ cs |-> USER_CS, eip |-> entry, rax |-> 0 ]

Thread_empty ==
    [ tid |-> 0, pid |-> 0, parent_tid |-> -1, state |-> "Unused",
      page_dir |-> 0, cpu_state |-> CpuState_empty ]

\* 0xcafe_babe_dead_beef
SEED_INIT == << 239, 190, 173, 222, 190, 186, 254, 202 >>
\* 0xdead_beed
LCG_A == << 237, 190, 173, 222, 0, 0, 0, 0 >>
\* 0x1234_5679
LCG_C == << 121, 86, 52, 18, 0, 0, 0, 0 >>

next_seed(seed) == wrapping_add(wrapping_mul(LCG_A, seed), LCG_C)

\* create_thread: the first Unused slot, or NONE
first_unused(threads) ==
    IF \E i \in ThreadIdx : threads[i].state = "Unused"
    THEN CHOOSE i \in ThreadIdx :
            /\ threads[i].state = "Unused"
            /\ \A j \in ThreadIdx : j < i => threads[j].state # "Unused"
    ELSE NONE

create_thread(threads, parent, page_dir, is_process) ==
    LET i == first_unused(threads) IN
    IF i = NONE THEN [ tid |-> NONE, threads |-> threads ]
    ELSE [ tid |-> i,
           threads |->
             [ threads EXCEPT ![i] =
                 [ tid |-> i,
                   pid |-> IF is_process THEN i
                           ELSE IF parent = NONE THEN 0 ELSE threads[parent].pid,
                   parent_tid |-> IF parent = NONE THEN -1 ELSE threads[parent].tid,
                   state |-> "Ready",
                   page_dir |-> page_dir,
                   cpu_state |-> CpuState_empty ] ] ]

save_state(threads, t, frame) == [ threads EXCEPT ![t].cpu_state = frame ]

set_return(threads, t, ret) == [ threads EXCEPT ![t].cpu_state.rax = ret ]

\* The reservoir scan of schedule over slots first .. MAX_THREADS - 1.
RECURSIVE schedule_scan(_, _, _, _, _, _)
schedule_scan(threads, seed, tid, i, count, next_thread) ==
    IF i >= MAX_THREADS THEN next_thread
    ELSE IF i = tid THEN schedule_scan(threads, seed, tid, i + 1, count, next_thread)
    ELSE IF threads[i].state = "Ready"
    THEN schedule_scan(threads, seed, tid, i + 1, count + 1,
                       IF rem_u64(seed, count + 1) = 0 THEN i ELSE next_thread)
    ELSE schedule_scan(threads, seed, tid, i + 1, count, next_thread)

\* mutant: the scan does not skip the excluded tid
schedule_noexclude(threads, current, seed0, tid, must_switch) ==
    LET seed == next_seed(seed0)
        picked == schedule_scan(threads, seed, NONE, 1, 0, NULL)
    IN  IF picked # NULL THEN [ next |-> picked, seed |-> seed ]
        ELSE IF ~must_switch \/ (current # NULL /\ threads[current].tid = 0)
        THEN [ next |-> NONE, seed |-> seed ]
        ELSE [ next |-> 0, seed |-> seed ]

\* mutant: the scan starts at slot 0, so the idle thread can be picked
schedule_fromzero(threads, current, seed0, tid, must_switch) ==
    LET seed == next_seed(seed0)
        picked == schedule_scan(threads, seed, tid, 0, 0, NULL)
    IN  IF picked # NULL THEN [ next |-> picked, seed |-> seed ]
        ELSE IF ~must_switch \/ (current # NULL /\ threads[current].tid = 0)
        THEN [ next |-> NONE, seed |-> seed ]
        ELSE [ next |-> 0, seed |-> seed ]

\* schedule up to the call of exit_to_thread: next is the slot switched to,
\* NONE when schedule returns to its caller.
schedule(threads, current, seed0, tid, must_switch) ==
    LET seed == next_seed(seed0)
        picked == schedule_scan(threads, seed, tid, 1, 0, NULL)
    IN  IF picked # NULL THEN [ next |-> picked, seed |-> seed ]
        ELSE IF ~must_switch \/ (current # NULL /\ threads[current].tid = 0)
        THEN [ next |-> NONE, seed |-> seed ]
        ELSE [ next |-> 0, seed |-> seed ]

\* exit_kernel (entry.asm): pops the frame and executes iret.  A frame whose
\* cs is not the user code selector (the all-zero CpuState::empty()) makes
\* iret raise #GP, which general_protection turns into a kernel panic.
exit_kernel(cpu_state) == IF cpu_state.cs = USER_CS THEN "user" ELSE "panic"

exit_to_thread(threads, c3, t) ==
    [ threads |-> [ threads EXCEPT ![t].state = "Running" ],
      cr3 |-> IF threads[t].page_dir # 0 THEN threads[t].page_dir ELSE c3,
      current |-> t,
      frame |-> threads[t].cpu_state,
      mode |-> exit_kernel(threads[t].cpu_state) ]

\* the rest of schedule, s being the thread it picked: the table, CR3,
\* current thread, trap frame and mode it leaves; mode "return" when it
\* returns to its caller.
schedule_run(threads, current, c3, frame, s) ==
    IF s.next = NONE
    THEN [ threads |-> threads, cr3 |-> c3, current |-> current, frame |-> frame,
           mode |-> "return", seed |-> s.seed, next |-> NONE ]
    ELSE LET x == exit_to_thread(threads, c3, s.next) IN
         [ threads |-> x.threads, cr3 |-> x.cr3, current |-> x.current,
           frame |-> x.frame, mode |-> x.mode, seed |-> s.seed, next |-> s.next ]

-----------------------------------------------------------------------------
(* SpecSched: schedule called on the thread tables fork, yield and exit    *)
(* build: slot 0 as init_threading leaves it, every other slot Unused or   *)
(* Ready, and the current thread Running, Ready (yield) or Unused (exit,   *)
(* SEGV) as its caller has just set it.                                    *)

UserThread(i, st) ==
    [ tid |-> i, pid |-> i, parent_tid |-> IF i = 1 THEN -1 ELSE 1,
      state |-> st, page_dir |-> PD_PHYS + i - 1,
      cpu_state |-> init_user_process(0) ]

IdleThread == [ Thread_empty EXCEPT !.state = "Running", !.page_dir = PD_PHYS ]

SchedTables ==
    { [ i \in ThreadIdx |-> IF i = 0 THEN IdleThread
                            ELSE IF f[i] = "Unused" THEN Thread_empty
                            ELSE UserThread(i, f[i]) ] :
        f \in [ ThreadIdx -> { "Unused", "Ready", "Running" } ] }

SeedSamples == { SEED_INIT, next_seed(SEED_INIT), next_seed(next_seed(SEED_INIT)) }

InitSched ==
    /\ THREADS \in SchedTables
    /\ CURRENT_THREAD \in ThreadIdx
    /\ \A i \in ThreadIdx :
          (i # 0 /\ i # CURRENT_THREAD) => THREADS[i].state # "Running"
    /\ SEED \in SeedSamples
    /\ cr3 = THREADS[CURRENT_THREAD].page_dir
    /\ regs = init_user_process(0)
    /\ PAGE_REFS = BootRefs
    /\ NEXT_FREE = kernel_high
    /\ mem = << >>
    /\ NUM_FREE_PAGE_DIRS = 0
    /\ PAGING_MODE = "Legacy"
    /\ NX_ENABLED = FALSE
    /\ mapped_end = 0
    /\ mode = "user"
    /\ last = NoOp
    /\ prev = NoOp
    /\ ops = 0
    /\ DevInit
    /\ HeapInit
    /\ ConsoleInit

Schedule(tid, must_switch) ==
    /\ mode = "user"
    /\ ops < MaxSched
    /\ \E s \in { schedule(THREADS, CURRENT_THREAD, SEED, tid, must_switch) } :
       \E r \in { schedule_run(THREADS, CURRENT_THREAD, cr3, regs, s) } :
         /\ THREADS' = r.threads
         /\ CURRENT_THREAD' = r.current
         /\ cr3' = r.cr3
         /\ regs' = r.frame
         /\ SEED' = r.seed
         /\ mode' = IF r.mode = "return" THEN "user" ELSE r.mode
         /\ last' = [ op |-> "schedule", arg |-> << tid, must_switch >>, ret |-> r.next,
                      pre |-> [ threads |-> THREADS, current |-> CURRENT_THREAD ] ]
    /\ prev' = last
    /\ ops' = ops + 1
    /\ UNCHANGED << PAGE_REFS, NEXT_FREE, mem, NUM_FREE_PAGE_DIRS, PAGING_MODE, NX_ENABLED, dev, kheap, console, mapped_end >>

NextSched ==
    \E tid \in { -1 } \cup ThreadIdx, must_switch \in BOOLEAN : Schedule(tid, must_switch)

SpecSched == InitSched /\ [][NextSched]_vars

\* the slots the normal scan of schedule may pick
ReadyOthers(threads, tid) ==
    { i \in ThreadIdx : i # 0 /\ i # tid /\ threads[i].state = "Ready" }

\* C10: schedule(exclude_tid, must_switch) switches in the normal scan only
\* to a thread that was Ready with tid # exclude_tid and tid # 0, and always
\* does when one exists; when none exists it switches to tid 0 iff
\* must_switch holds and the current thread is not tid 0, and otherwise
\* returns having changed no TCB.
C10_ScheduleContract ==
    last.op = "schedule" =>
        LET tid == last.arg[1]
            must_switch == last.arg[2]
            before == last.pre.threads
            cand == ReadyOthers(before, tid)
        IN  IF cand # {}
            THEN /\ last.ret \in cand
                 /\ CURRENT_THREAD = last.ret
                 /\ THREADS = [ before EXCEPT ![last.ret].state = "Running" ]
            ELSE IF must_switch /\ before[last.pre.current].tid # 0
            THEN /\ last.ret = 0
                 /\ CURRENT_THREAD = 0
                 /\ THREADS = [ before EXCEPT ![0].state = "Running" ]
            ELSE /\ last.ret = NONE
                 /\ THREADS = before
                 /\ CURRENT_THREAD = last.pre.current

C10_Witness ==
    /\ last.op = "schedule"
    /\ Cardinality(ReadyOthers(last.pre.threads, last.arg[1])) >= 2
    /\ last.arg[1] = last.pre.current
    /\ last.pre.threads[last.arg[1]].state = "Ready"
    /\ \E j \in ReadyOthers(last.pre.threads, last.arg[1]) : j < last.ret
    /\ THREADS[last.ret].state = "Running"

-----------------------------------------------------------------------------
(* paging2.rs: entries and the recursive window, in legacy 32-bit mode and *)
(* in PAE mode                                                             *)
(* (virtual addresses are kept as page indices; the TLB is taken to be     *)
(* coherent with the tables)                                               *)

PAGE_SIZE == 4096
\* entries_per_page_for::<Entry32>()
EPP == PAGE_SIZE \div 4
NUM_PAGES == 1048576
\* 0xC0000
PAGE_TABLE_BASE_IDX == 786432
\* Entry32::USER_ENTRY_LIMIT, 0xC0300
USER_ENTRY_LIMIT == 787200
\* FORK_PAGE_TAB / PAGE_SIZE, 0xC0900
FORK_PAGE_TAB_IDX == 788736
\* LOW_MEM_BASE / PAGE_SIZE, 0xC0A00
LOW_MEM_BASE_IDX == 788992
\* KERNEL_BASE / PAGE_SIZE, 0xC0B00
KERNEL_BASE_IDX == 789248
\* NULL_LIMIT / PAGE_SIZE
NULL_LIMIT_PAGES == 16

\* entries_per_page_for::<Entry64>()
EPP_PAE == PAGE_SIZE \div 8
\* Entry64::USER_ENTRY_LIMIT, 0xC0603
USER_ENTRY_LIMIT_PAE == 787971

\* An entry: present, writable, user, SOFT_RO, NO_EXECUTE and the page
\* number.
E_default ==
    [ p |-> FALSE, w |-> FALSE, u |-> FALSE, ro |-> FALSE, nx |-> FALSE, page |-> 0 ]

E_new(page, writable, user) ==
    [ p |-> TRUE, w |-> writable, u |-> user, ro |-> FALSE, nx |-> FALSE, page |-> page ]

NoEntries == [ j \in {} |-> E_default ]

Get(t, i) == IF i \in DOMAIN t THEN t[i] ELSE E_default

Put(t, i, e) ==
    IF e = E_default
    THEN [ j \in (DOMAIN t) \ { i } |-> t[j] ]
    ELSE [ j \in (DOMAIN t) \cup { i } |-> IF j = i THEN e ELSE t[j] ]

ZeroPage == [ ent |-> NoEntries, dat |-> "zero" ]

\* enable_legacy and finish_setup_paging: the page directory with the
\* recursive entry and the kernel table; the identity entry PD[0] removed.
BootPD ==
    Put(Put(NoEntries, PAGE_TABLE_BASE_IDX \div EPP, E_new(PD_PHYS, TRUE, FALSE)),
        KERNEL_BASE_IDX \div EPP, E_new(PT_KERNEL_PHYS, TRUE, FALSE))

\* pt_kernel: low memory at LOW_MEM_BASE, the kernel image at KERNEL_BASE
\* (harden_kernel leaves the read-only zero page without write access).
BootPT ==
    LET low == LOW_MEM_BASE_IDX % EPP
        kern == KERNEL_BASE_IDX % EPP
    IN  [ j \in { low + i : i \in 0 .. (LOW_PAGES - 1) }
                \cup { kern + i : i \in 0 .. (kernel_high - kernel_low - 1) } |->
            IF j < kern
            THEN E_new(j - low, TRUE, FALSE)
            ELSE E_new(kernel_low + (j - kern), kernel_low + (j - kern) # ZERO_PHYS, FALSE) ]

BootMem ==
    [ q \in PageIdx |->
        IF q = PD_PHYS THEN [ ent |-> BootPD, dat |-> "zero" ]
        ELSE IF q = PT_KERNEL_PHYS THEN [ ent |-> BootPT, dat |-> "zero" ]
        ELSE IF q = SCRATCH_PHYS THEN [ ent |-> NoEntries, dat |-> "boot" ]
        ELSE ZeroPage ]

\* LET with the bound value computed once
With(v, Body(_)) == Body(v)

\* The machine state the memory operations work on: the allocator, physical
\* memory, CR3 and how the current kernel entry ends ("ok", "segv",
\* "panic", "hang").  traps counts the trap contexts on the kernel stack
\* (isr_handler activations: the syscall or page fault taken from user mode
\* and the page faults taken inside it); cow_traps is the greatest such
\* count at which handle_cow_fault has worked on the reference table.
Machine(refs, next, m, c3) ==
    [ refs |-> refs, next |-> next, mem |-> m, cr3 |-> c3, st |-> "ok",
      pae |-> (PAGING_MODE = "Pae"), nx |-> NX_ENABLED, traps |-> 0, cow_traps |-> 0,
      oob |-> FALSE ]

\* the machine inside n trap contexts
Trap(k, n) == [ k EXCEPT !.traps = n ]

\* the reference table is read or written by the handler running now
on_table(k) == [ k EXCEPT !.cow_traps = IF k.traps > @ THEN k.traps ELSE @ ]

\* the constants of the Entry implementation that entries() selects
epp(k) == IF k.pae THEN EPP_PAE ELSE EPP
user_entry_limit(k) == IF k.pae THEN USER_ENTRY_LIMIT_PAE ELSE USER_ENTRY_LIMIT

\* Entry::set_no_execute: without effect unless nx_enabled()
set_no_execute(k, e, v) == IF k.nx THEN [ e EXCEPT !.nx = v ] ELSE e

stop(k, how) == [ k EXCEPT !.st = how ]

\* an index past the end of the NUM_PAGES entries of entries(): the bounds
\* check panics
out_of_bounds(k) == [ k EXCEPT !.st = "panic", !.oob = TRUE ]

\* The hardware walk for virtual page v below the table pd_page: the
\* directory entry, then the table entry.
walk(k, pd_page, v) ==
    LET pde == Get(k.mem[pd_page].ent, (v \div epp(k)) % epp(k)) IN
    IF ~pde.p THEN E_default
    ELSE LET pte == Get(k.mem[pde.page].ent, v % epp(k)) IN
         IF ~pte.p THEN E_default
         ELSE [ p |-> TRUE, w |-> pde.w /\ pte.w, u |-> pde.u /\ pte.u,
                ro |-> pte.ro, nx |-> pde.nx \/ pte.nx, page |-> pte.page ]

\* Legacy: two levels from the directory in CR3.  PAE: the entry of the
\* PDPT in CR3 (present bit only) selects the directory.
translate(k, v) ==
    IF ~k.pae THEN walk(k, k.cr3, v)
    ELSE LET pdpte == Get(k.mem[k.cr3].ent, v \div (EPP_PAE * EPP_PAE)) IN
         IF ~pdpte.p THEN E_default ELSE walk(k, pdpte.page, v)

IsWrite(acc) == acc.kind \in { "wr_ent", "wr_dat", "wr_page", "wr_copy" }

\* an instruction fetch is refused on a no-execute page once EFER.NXE is set
IsFetch(acc) == acc.kind = "fetch"

\* What one memory access does to the physical page it reaches.
perform(k, page, acc) ==
    CASE acc.kind = "rd_ent" -> [ k |-> k, val |-> Get(k.mem[page].ent, acc.slot) ]
      [] acc.kind = "wr_ent" ->
            [ k |-> [ k EXCEPT !.mem[page].ent = Put(@, acc.slot, acc.val) ], val |-> acc.val ]
      [] acc.kind = "rd_page" -> [ k |-> k, val |-> k.mem[page] ]
      [] acc.kind = "wr_page" -> [ k |-> [ k EXCEPT !.mem[page] = acc.val ], val |-> acc.val ]
      [] acc.kind = "rd_dat" -> [ k |-> k, val |-> k.mem[page].dat ]
      [] acc.kind = "fetch" -> [ k |-> k, val |-> k.mem[page].dat ]
      [] acc.kind = "wr_dat" -> [ k |-> [ k EXCEPT !.mem[page].dat = acc.val ], val |-> acc.val ]
      [] acc.kind = "wr_copy" ->
            [ k |-> [ k EXCEPT !.mem[page].dat = k.mem[SCRATCH_PHYS].dat ], val |-> acc.val ]

-----------------------------------------------------------------------------
(* traps.rs: the page-fault path.  A memory access that the walk refuses   *)
(* raises #PF; the handler runs (its own accesses to the window can fault  *)
(* in turn) and the access is retried.                                     *)

RECURSIVE access(_, _, _, _)
RECURSIVE page_fault(_, _, _, _, _, _, _)
RECURSIVE demand_page(_, _, _, _)
RECURSIVE handle_protection_fault(_, _, _, _, _, _)
RECURSIVE handle_cow_fault(_, _, _)
RECURSIVE entry_read(_, _, _)
RECURSIVE entry_write(_, _, _, _)

\* acc: [kind, slot, val, user]; the result is the machine and the value read
access(k, v, acc, fuel) ==
    IF k.st # "ok" THEN [ k |-> k, val |-> E_default ]
    ELSE IF fuel = 0 THEN [ k |-> stop(k, "hang"), val |-> E_default ]
    ELSE LET t == translate(k, v) IN
         IF /\ t.p /\ (acc.user => t.u) /\ (IsWrite(acc) => t.w)
            /\ (IsFetch(acc) /\ k.nx => ~t.nx)
         THEN perform(k, t.page, acc)
         ELSE access(Trap(page_fault(Trap(k, k.traps + 1), v, t.p, IsWrite(acc), acc.user,
                                     IsFetch(acc) /\ k.nx, fuel - 1), k.traps),
                     v, acc, fuel - 1)

\* entries[idx]: the slice is NUM_PAGES long and bounds-checked
entry_read(k, idx, fuel) ==
    IF k.st # "ok" THEN [ k |-> k, val |-> E_default ]
    ELSE IF idx >= NUM_PAGES THEN [ k |-> out_of_bounds(k), val |-> E_default ]
    ELSE access(k, PAGE_TABLE_BASE_IDX + idx \div epp(k),
                [ kind |-> "rd_ent", slot |-> idx % epp(k), val |-> E_default,
                  user |-> FALSE ],
                fuel)

entry_write(k, idx, e, fuel) ==
    IF k.st # "ok" THEN k
    ELSE IF idx >= NUM_PAGES THEN out_of_bounds(k)
    ELSE access(k, PAGE_TABLE_BASE_IDX + idx \div epp(k),
                [ kind |-> "wr_ent", slot |-> idx % epp(k), val |-> e, user |-> FALSE ],
                fuel).k

\* mutant: SOFT_RO is not consulted, every write fault is resolved by COW
handle_protection_fault_nosoftro(k, page_index, write, user, instruction_fetch, fuel) ==
    IF instruction_fetch THEN stop(k, IF user THEN "segv" ELSE "panic")
    ELSE IF ~write THEN stop(k, "panic")
    ELSE handle_cow_fault(k, page_index, fuel)

\* mutant: the guard stops one page short of NULL_LIMIT
null_guard_short(page_index) ==
    page_index < NULL_LIMIT_PAGES - 1 \/ page_index >= NUM_PAGES - NULL_LIMIT_PAGES

\* fault_addr < NULL_LIMIT || fault_addr >= 0usize.wrapping_sub(NULL_LIMIT)
null_guard(page_index) ==
    page_index < NULL_LIMIT_PAGES \/ page_index >= NUM_PAGES - NULL_LIMIT_PAGES

page_fault(k, page_index, present, write, user, instruction_fetch, fuel) ==
    IF null_guard(page_index)
    THEN stop(k, IF user THEN "segv" ELSE "panic")
    ELSE IF user /\ page_index >= PAGE_TABLE_BASE_IDX THEN stop(k, "segv")
    ELSE IF ~user /\ page_index >= KERNEL_BASE_IDX THEN stop(k, "panic")
    ELSE IF present
    THEN handle_protection_fault(k, page_index, write, user, instruction_fetch, fuel)
    ELSE demand_page(k, page_index, k.pae /\ k.nx, fuel)

\* mutant: NX is set on the entries of page-table levels too
demand_entry_nx_all(k, page_index, use_nx) ==
    LET e == E_new(ZERO_PHYS, FALSE, page_index < user_entry_limit(k)) IN
    IF use_nx THEN set_no_execute(k, e, TRUE) ELSE e

\* the entry demand_page builds
demand_entry(k, page_index, use_nx) ==
    LET e == E_new(ZERO_PHYS, FALSE, page_index < user_entry_limit(k)) IN
    IF use_nx /\ page_index < PAGE_TABLE_BASE_IDX THEN set_no_execute(k, e, TRUE) ELSE e

demand_page(k, page_index, use_nx, fuel) ==
    entry_write(k, page_index, demand_entry(k, page_index, use_nx), fuel)

handle_protection_fault(k, page_index, write, user, instruction_fetch, fuel) ==
    IF instruction_fetch THEN stop(k, IF user THEN "segv" ELSE "panic")
    ELSE IF ~write THEN stop(k, "panic")
    ELSE With(entry_read(k, page_index, fuel), LAMBDA r :
         IF r.k.st # "ok" THEN r.k
         ELSE IF ~r.val.ro THEN handle_cow_fault(r.k, page_index, fuel)
         ELSE stop(r.k, IF user THEN "segv" ELSE "panic"))

\* mutant: the new entry is always user-accessible
cow_entry_user(new_page, e) == E_new(new_page, TRUE, TRUE)

\* the entry installed for the copy: writable, U bit preserved
cow_entry(new_page, e) == E_new(new_page, TRUE, e.u)

handle_cow_fault(k, page_index, fuel) ==
    With(entry_read(k, page_index, fuel), LAMBDA r0 :
    IF r0.k.st # "ok" THEN r0.k
    ELSE
    With([ k |-> on_table(r0.k), val |-> r0.val ], LAMBDA r1 :
    IF get_ref_count(r1.k.refs, r1.val.page) = 1
    THEN \* entries[page_index].set_writable(true)
         entry_write(r1.k, page_index, [ r1.val EXCEPT !.w = TRUE ], fuel)
    ELSE
    With(free_phys_page(r1.k.refs, r1.val.page), LAMBDA f :
    With(alloc_phys_page(f.refs, r1.k.next), LAMBDA a :
    IF a.ret = NONE THEN stop([ r1.k EXCEPT !.refs = f.refs ], "panic")
    ELSE IF a.ret = HANG THEN stop([ r1.k EXCEPT !.refs = f.refs ], "hang")
    ELSE
    \* copy the faulting page to SCRATCH
    With(access([ r1.k EXCEPT !.refs = a.refs, !.next = a.next ], page_index,
                [ kind |-> "rd_page", slot |-> 0, val |-> E_default, user |-> FALSE ],
                fuel), LAMBDA src :
    IF src.k.st # "ok" THEN src.k
    ELSE
    With(entry_read([ src.k EXCEPT !.mem[SCRATCH_PHYS] = src.val ], page_index, fuel),
         LAMBDA r4 :
    With(entry_write(r4.k, page_index, cow_entry(a.ret, r4.val), fuel), LAMBDA k5 :
    \* copy back from SCRATCH through the new mapping
    IF k5.st # "ok" THEN k5
    ELSE access(k5, page_index,
                [ kind |-> "wr_page", slot |-> 0, val |-> k5.mem[SCRATCH_PHYS],
                  user |-> FALSE ], fuel).k)))))))

-----------------------------------------------------------------------------
(* paging2.rs: the page-directory pool and fork                            *)

\* PAGE_DIR_POOL[i] after init_page_dir_pool, as a page index
PAGE_DIR_POOL(i) == LOW_MEM_BASE_IDX - (i + 1)

init_page_dir_pool == NUM_PAGE_DIRS

\* alloc_page_dir: the slot handed out and the new NUM_FREE_PAGE_DIRS
alloc_page_dir(num_free) ==
    IF num_free = 0 THEN [ ret |-> NONE, num_free |-> num_free ]
    ELSE [ ret |-> PAGE_DIR_POOL(num_free - 1), num_free |-> num_free - 1 ]

child_page_idx_for(k, parent_idx, entry_idx) ==
    (parent_idx - PAGE_TABLE_BASE_IDX) * epp(k) + entry_idx

RECURSIVE recursively_copy_page_table_generic(_, _, _)
RECURSIVE copy_table_entries(_, _, _, _)

\* the loop "for i in 0..epp" of the table branch, from i on
copy_table_entries(k, page_idx, i, fuel) ==
    IF k.st # "ok" \/ i >= epp(k) THEN k
    ELSE LET dst_offset == page_idx - PAGE_TABLE_BASE_IDX
             src_idx == page_idx * epp(k) + i
             dst_idx == (FORK_PAGE_TAB_IDX + dst_offset) * epp(k) + i
         IN  With(entry_read(k, src_idx, fuel), LAMBDA r :
             IF r.k.st # "ok" THEN r.k
             ELSE IF r.val.p /\ r.val.u
             THEN With(recursively_copy_page_table_generic(
                           r.k, child_page_idx_for(r.k, page_idx, i), fuel), LAMBDA c :
                  copy_table_entries(
                      entry_write(c.k, dst_idx,
                                  [ E_new(c.val, ~r.val.ro, r.val.u) EXCEPT !.ro = r.val.ro ],
                                  fuel),
                      page_idx, i + 1, fuel))
             ELSE IF r.val.p
             THEN copy_table_entries(
                      entry_write(r.k, dst_idx,
                                  [ E_new(r.val.page, ~r.val.ro, r.val.u)
                                      EXCEPT !.ro = r.val.ro ], fuel),
                      page_idx, i + 1, fuel)
             ELSE copy_table_entries(r.k, page_idx, i + 1, fuel))

\* the result is the machine and the physical page returned
recursively_copy_page_table_generic(k, page_idx, fuel) ==
    IF k.st # "ok" THEN [ k |-> k, val |-> 0 ]
    ELSE IF page_idx >= PAGE_TABLE_BASE_IDX
    THEN With(entry_read(copy_table_entries(k, page_idx, 0, fuel),
                         FORK_PAGE_TAB_IDX + (page_idx - PAGE_TABLE_BASE_IDX), fuel),
              LAMBDA r : [ k |-> r.k, val |-> r.val.page ])
    ELSE With(entry_read(k, page_idx, fuel), LAMBDA r :
         IF r.k.st # "ok" THEN [ k |-> r.k, val |-> 0 ]
         ELSE LET phys_page == r.val.page
                  k1 == [ r.k EXCEPT !.refs = inc_shared_count(@, phys_page).refs ]
              IN  IF r.val.w
                  THEN [ k |-> entry_write(k1, page_idx, [ r.val EXCEPT !.w = FALSE ], fuel),
                         val |-> phys_page ]
                  ELSE [ k |-> k1, val |-> phys_page ])

\* the loop "for i in kernel_start_idx..(epp - 1)" of fork_current_generic
RECURSIVE copy_kernel_entries(_, _, _, _)
copy_kernel_entries(k, new_pd_idx, i, fuel) ==
    IF k.st # "ok" \/ i >= epp(k) - 1 THEN k
    ELSE With(entry_read(k, (NUM_PAGES - epp(k)) + i, fuel), LAMBDA r :
         IF r.k.st # "ok" THEN r.k
         ELSE IF r.val.p
         THEN copy_kernel_entries(
                  entry_write(r.k, new_pd_idx * epp(k) + i, E_new(r.val.page, TRUE, FALSE), fuel),
                  new_pd_idx, i + 1, fuel)
         ELSE copy_kernel_entries(r.k, new_pd_idx, i + 1, fuel))

fork_current_generic(k, pd_phys_page, new_pd_idx, fuel) ==
    LET k1 == recursively_copy_page_table_generic(k, NUM_PAGES - 1, fuel).k
        k2 == copy_kernel_entries(k1, new_pd_idx, KERNEL_BASE_IDX \div epp(k), fuel)
        k3 == entry_write(k2, new_pd_idx * epp(k) + (epp(k) - 1),
                          E_new(pd_phys_page, TRUE, FALSE), fuel)
    IN  entry_write(k3, new_pd_idx * epp(k) + (epp(k) - 2), E_default, fuel)

\* fork_current: ret is the new page directory (its physical page), NONE
\* for None; num_free is NUM_FREE_PAGE_DIRS afterwards.
fork_current(k, num_free) ==
    LET d == alloc_page_dir(num_free) IN
    IF d.ret = NONE THEN [ ret |-> NONE, k |-> k, num_free |-> d.num_free ]
    ELSE LET a == alloc_phys_page(k.refs, k.next) IN
         IF a.ret = NONE THEN [ ret |-> NONE, k |-> k, num_free |-> d.num_free ]
         ELSE IF a.ret = HANG
         THEN [ ret |-> NONE, k |-> stop(k, "hang"), num_free |-> d.num_free ]
         ELSE LET k1 == [ k EXCEPT !.refs = a.refs, !.next = a.next ]
                  new_pd_idx == d.ret
                  k2 == entry_write(k1, new_pd_idx, E_new(a.ret, TRUE, FALSE), MaxFaults)
                  k3 == fork_current_generic(k2, a.ret, new_pd_idx, MaxFaults)
                  k4 == entry_write(k3, new_pd_idx, E_default, MaxFaults)
              IN  [ ret |-> a.ret, k |-> k4, num_free |-> d.num_free ]

-----------------------------------------------------------------------------
(* elf.rs, lib/src/elf.rs: loading an executable                           *)

\* An executable: header validity, entry page and the PT_LOAD program
\* headers [vaddr, memsz, filesz, w, x], sizes in pages.
Segment(vaddr, memsz, filesz, w, x) ==
    [ vaddr |-> vaddr, memsz |-> memsz, filesz |-> filesz, w |-> w, x |-> x ]

\* The file is read through the buffer it was loaded into.  With the buffer
\* in SCRATCH (startup) a header read after a COW fault has reused SCRATCH
\* sees the copied page, not the file.
file_intact(k, in_scratch) == ~in_scratch \/ k.mem[SCRATCH_PHYS].dat = "elf"

RECURSIVE copy_pages(_, _, _, _)
copy_pages(k, v, n, acc) ==
    IF n = 0 \/ k.st # "ok" THEN k
    ELSE copy_pages(access(k, v, acc, MaxFaults).k, v + 1, n - 1, acc)

finalize_page_permissions(k, page, writable, executable) ==
    With(entry_read(k, page, MaxFaults), LAMBDA r :
    IF r.k.st = "ok" /\ r.val.p
    THEN LET entry == [ E_new(r.val.page, writable, TRUE) EXCEPT !.ro = ~writable ] IN
         entry_write(r.k, page,
                     IF executable THEN set_no_execute(r.k, entry, FALSE) ELSE entry,
                     MaxFaults)
    ELSE r.k)

RECURSIVE finalize_pages(_, _, _, _, _)
finalize_pages(k, v, n, writable, executable) ==
    IF n = 0 \/ k.st # "ok" THEN k
    ELSE finalize_pages(finalize_page_permissions(k, v, writable, executable),
                        v + 1, n - 1, writable, executable)

\* first pass of load_elf over program headers i .. count
RECURSIVE load_copy(_, _, _, _)
load_copy(k, elf, i, in_scratch) ==
    IF i > Len(elf.segs) \/ k.st # "ok" THEN k
    ELSE IF ~file_intact(k, in_scratch) THEN load_copy(k, elf, i + 1, in_scratch)
    ELSE LET seg == elf.segs[i] IN
         IF seg.filesz = 0 THEN load_copy(k, elf, i + 1, in_scratch)
         ELSE LET k1 == copy_pages(k, seg.vaddr, seg.filesz,
                                   [ kind |-> IF in_scratch THEN "wr_copy" ELSE "wr_dat",
                                     slot |-> 0, val |-> "elf", user |-> FALSE ])
                  k2 == copy_pages(k1, seg.vaddr + seg.filesz, seg.memsz - seg.filesz,
                                   [ kind |-> "wr_dat", slot |-> 0, val |-> "zero",
                                     user |-> FALSE ])
              IN  load_copy(k2, elf, i + 1, in_scratch)

\* second pass of load_elf over program headers i .. count
RECURSIVE load_finalize(_, _, _, _, _)
load_finalize(k, elf, i, count, in_scratch) ==
    IF i > count \/ k.st # "ok" THEN k
    ELSE IF ~file_intact(k, in_scratch) THEN load_finalize(k, elf, i + 1, count, in_scratch)
    ELSE LET seg == elf.segs[i] IN
         load_finalize(finalize_pages(k, seg.vaddr, seg.memsz, seg.w, seg.x),
                       elf, i + 1, count, in_scratch)

\* load_elf: header_cached tells whether the build kept the header fields
\* it read before the first copy (the header is read through a shared
\* reference while SCRATCH is written through a raw pointer, so either is a
\* possible outcome).
load_elf(k, elf, in_scratch, header_cached) ==
    IF ~elf.ok THEN [ ret |-> "err", k |-> k, entry |-> 0 ]
    ELSE With(load_copy(k, elf, 1, in_scratch), LAMBDA k1 :
         LET seen == header_cached \/ file_intact(k1, in_scratch) IN
         [ ret |-> "ok",
           k |-> load_finalize(k1, elf, 1, IF seen THEN Len(elf.segs) ELSE 0, in_scratch),
           entry |-> IF seen THEN elf.entry ELSE 0 ])

\* 0x08048000
TEXT_PAGE == 32 * EPP + 72
\* the last page below USER_STACK_TOP
STACK_PAGE == PAGE_TABLE_BASE_IDX - 1

Elfs ==
    { [ ok |-> TRUE, entry |-> TEXT_PAGE,
        segs |-> << Segment(TEXT_PAGE, 1, 1, FALSE, TRUE) >> ],
      [ ok |-> TRUE, entry |-> TEXT_PAGE,
        segs |-> << Segment(TEXT_PAGE, 1, 1, FALSE, TRUE),
                    Segment(TEXT_PAGE + 1, 1, 1, TRUE, FALSE) >> ],
      [ ok |-> TRUE, entry |-> TEXT_PAGE,
        segs |-> << Segment(TEXT_PAGE, 1, 0, TRUE, FALSE) >> ],
      [ ok |-> FALSE, entry |-> 0, segs |-> << >> ] }

-----------------------------------------------------------------------------
(* heap.rs: the kernel heap, mapped on demand above the kernel image;      *)
(* paging2.rs: free_user_pages                                             *)

\* heap_base() / PAGE_SIZE: the first page after the kernel image
HEAP_BASE_IDX == KERNEL_BASE_IDX + (kernel_high - kernel_low)
\* HEAP_END / PAGE_SIZE, 0xFFF00
HEAP_END_IDX == 1048320
\* extend_heap maps at least this many pages at a time
HEAP_MIN_PAGES == 4
\* the size of an executable file, in pages
FILE_PAGES == 1

Max(a, b) == IF a >= b THEN a ELSE b

\* the loop of extend_heap with n pages still to map; me is mapped_end
RECURSIVE extend_pages(_, _, _)
extend_pages(k, me, n) ==
    IF k.st # "ok" THEN [ ok |-> FALSE, k |-> k, me |-> me ]
    ELSE IF n = 0 THEN [ ok |-> TRUE, k |-> k, me |-> me ]
    ELSE IF me >= HEAP_END_IDX THEN [ ok |-> FALSE, k |-> k, me |-> me ]
    ELSE With(alloc_phys_page(k.refs, k.next), LAMBDA a :
         IF a.ret = NONE THEN [ ok |-> FALSE, k |-> k, me |-> me ]
         ELSE IF a.ret = HANG THEN [ ok |-> FALSE, k |-> stop(k, "hang"), me |-> me ]
         ELSE extend_pages(entry_write([ k EXCEPT !.refs = a.refs, !.next = a.next ],
                                       me, E_new(a.ret, TRUE, FALSE), MaxFaults),
                           me + 1, n - 1))

\* extend_heap(min_size), min_pages being min_size rounded up to pages
extend_heap(k, me, min_pages) == extend_pages(k, me, Max(min_pages, HEAP_MIN_PAGES))

\* GlobalAlloc::alloc for a buffer of `pages` pages.  The heap holds the
\* buffers of exec only (the one the current symbols own and the one being
\* read), so a mapped region always has room for the next; with nothing
\* mapped the heap is extended by size + align.  A null return makes
\* vec! abort the kernel.
heap_alloc(k, me, pages) ==
    IF me > HEAP_BASE_IDX THEN [ k |-> k, me |-> me ]
    ELSE With(extend_heap(k, me, pages + 1), LAMBDA x :
         IF x.k.st = "ok" /\ ~x.ok THEN [ k |-> stop(x.k, "panic"), me |-> x.me ]
         ELSE [ k |-> x.k, me |-> x.me ])

RECURSIVE recurse_free_pages_generic(_, _, _)
RECURSIVE free_table_entries(_, _, _, _)

\* the loop "for i in 0..epp" of recurse_free_pages_generic, from i on
free_table_entries(k, page_idx, i, fuel) ==
    IF k.st # "ok" \/ i >= epp(k) THEN k
    ELSE With(entry_read(k, page_idx * epp(k) + i, fuel), LAMBDA r :
         IF r.k.st # "ok" THEN r.k
         ELSE IF r.val.p /\ r.val.u
         THEN free_table_entries(
                  recurse_free_pages_generic(
                      r.k, (page_idx - PAGE_TABLE_BASE_IDX) * epp(k) + i, fuel),
                  page_idx, i + 1, fuel)
         ELSE free_table_entries(r.k, page_idx, i + 1, fuel))

recurse_free_pages_generic(k, page_idx, fuel) ==
    With(entry_read(k, page_idx, fuel), LAMBDA r :
    IF r.k.st # "ok" \/ ~r.val.p THEN r.k
    ELSE With(IF page_idx >= PAGE_TABLE_BASE_IDX
              THEN free_table_entries(r.k, page_idx, 0, fuel) ELSE r.k, LAMBDA k1 :
         With(entry_read(k1, page_idx, fuel), LAMBDA r2 :
         IF r2.k.st # "ok" THEN r2.k
         ELSE [ r2.k EXCEPT !.refs = free_phys_page(@, r2.val.page).refs ])))

\* a free_user_pages that releases the page behind the entry point
free_user_pages_leaf(k) ==
    With(entry_read(k, TEXT_PAGE, MaxFaults), LAMBDA r :
    IF r.k.st # "ok" \/ ~r.val.p THEN r.k
    ELSE [ r.k EXCEPT !.refs = free_phys_page(@, r.val.page).refs ])

free_user_pages(k) == recurse_free_pages_generic(k, NUM_PAGES - 1, MaxFaults)

-----------------------------------------------------------------------------
(* Views of an address space used to state properties                      *)

\* the entry for virtual page v under root, read without faulting
lookup(m, root, v) ==
    LET pde == Get(m[root].ent, v \div EPP) IN
    IF ~pde.p THEN E_default ELSE Get(m[pde.page].ent, v % EPP)

\* the same under a PDPT
lookup_pae(m, root, v) ==
    LET pdpte == Get(m[root].ent, v \div (EPP_PAE * EPP_PAE)) IN
    IF ~pdpte.p THEN E_default
    ELSE LET pde == Get(m[pdpte.page].ent, (v \div EPP_PAE) % EPP_PAE) IN
         IF ~pde.p THEN E_default ELSE Get(m[pde.page].ent, v % EPP_PAE)

UserDirs(m, root) ==
    { j \in DOMAIN m[root].ent : j < PAGE_TABLE_BASE_IDX \div EPP /\ m[root].ent[j].p }

\* the user pages with a present entry
MappedUser(m, root) ==
    UNION { { j * EPP + i : i \in { x \in DOMAIN m[m[root].ent[j].page].ent :
                                      m[m[root].ent[j].page].ent[x].p } } :
            j \in UserDirs(m, root) }

WritableUser(m, root) == { v \in MappedUser(m, root) : lookup(m, root, v).w }

\* the physical pages the user part of an address space holds a count on
HeldPages(m, root, refs) ==
    { q \in { m[root].ent[j].page : j \in UserDirs(m, root) }
              \cup { lookup(m, root, v).page : v \in MappedUser(m, root) } :
        refs[q] \in 1 .. (RESERVED - 1) }

-----------------------------------------------------------------------------
(* Spec: the kernel from KernelInit on (lib.rs:124-204): paging set up,    *)
(* the allocator initialised; then init_threading, startup, and the traps  *)
(* a user thread can cause.                                                *)

ENOMEM == -12

\* mutant: slot 0 is left in the state it had
init_threading_nostate(threads, c3) ==
    [ threads EXCEPT ![0] = [ @ EXCEPT !.tid = 0, !.pid = 0, !.parent_tid = -1,
                                       !.page_dir = c3 ] ]

init_threading(threads, c3) ==
    [ threads EXCEPT ![0] = [ @ EXCEPT !.tid = 0, !.pid = 0, !.parent_tid = -1,
                                       !.state = "Running", !.page_dir = c3 ] ]

DataVals == { "A", "B" }

\* pages user code touches: the null page, two pages of one table, the top
\* of the stack, the recursive window and the kernel image
UserPageArgs ==
    { 0, TEXT_PAGE, TEXT_PAGE + 1, STACK_PAGE, PAGE_TABLE_BASE_IDX, KERNEL_BASE_IDX }

Now == Machine(PAGE_REFS, NEXT_FREE, mem, cr3)

\* what a property may need of the state an operation started in
Snapshot ==
    [ refs |-> PAGE_REFS, threads |-> THREADS, current |-> CURRENT_THREAD,
      num_free |-> NUM_FREE_PAGE_DIRS, regs |-> regs,
      writable |-> WritableUser(mem, cr3),
      dirs |-> UserDirs(mem, cr3),
      page |-> [ v \in UserPageArgs |-> lookup(mem, cr3, v) ],
      mem |-> mem, next |-> NEXT_FREE,
      held |-> HeldPages(mem, cr3, PAGE_REFS) ]

Init ==
    /\ PAGE_REFS = BootRefs
    /\ NEXT_FREE = kernel_high
    /\ mem = BootMem
    /\ cr3 = PD_PHYS
    /\ NUM_FREE_PAGE_DIRS = 0
    /\ PAGING_MODE = "Legacy"
    /\ NX_ENABLED = FALSE
    /\ mapped_end = HEAP_BASE_IDX
    /\ THREADS = [ i \in ThreadIdx |-> Thread_empty ]
    /\ CURRENT_THREAD = NULL
    /\ SEED = SEED_INIT
    /\ regs = CpuState_empty
    /\ mode = "boot"
    /\ last = NoOp
    /\ prev = NoOp
    /\ ops = 0
    /\ DevInit
    /\ HeapInit
    /\ ConsoleInit

SetMachine(k) ==
    /\ PAGE_REFS' = k.refs
    /\ NEXT_FREE' = k.next
    /\ mem' = k.mem
    /\ cr3' = k.cr3

InitThreading ==
    /\ mode = "boot"
    /\ THREADS' = init_threading(THREADS, cr3)
    /\ CURRENT_THREAD' = 0
    /\ mode' = "threaded"
    /\ last' = [ op |-> "init_threading", arg |-> NONE, ret |-> NONE, pre |-> Snapshot ]
    /\ UNCHANGED << PAGE_REFS, NEXT_FREE, mem, cr3, NUM_FREE_PAGE_DIRS, PAGING_MODE, NX_ENABLED, dev, kheap, console, mapped_end, SEED, regs,
                    prev, ops >>

\* startup: read init.elf into SCRATCH, load it, create the init thread and
\* switch to it
Startup(elf, header_cached) ==
    /\ mode = "threaded"
    /\ \E l \in { load_elf(Machine(PAGE_REFS, NEXT_FREE,
                                   [ mem EXCEPT ![SCRATCH_PHYS] =
                                       [ ent |-> NoEntries, dat |-> "elf" ] ],
                                   cr3),
                           elf, TRUE, header_cached) },
          c \in { create_thread(THREADS, NONE, cr3, TRUE) } :
           /\ SetMachine(l.k)
           /\ last' = [ op |-> "startup", arg |-> elf, ret |-> l.ret, pre |-> Snapshot ]
           /\ IF l.k.st # "ok"
              THEN /\ mode' = l.k.st
                   /\ UNCHANGED << THREADS, CURRENT_THREAD, regs >>
              ELSE IF l.ret = "err" \/ c.tid = NONE
              THEN /\ mode' = "hang"
                   /\ UNCHANGED << THREADS, CURRENT_THREAD, regs >>
              ELSE LET t1 == [ c.threads EXCEPT ![c.tid].cpu_state = init_user_process(l.entry) ]
                       x == exit_to_thread(t1, cr3, c.tid)
                   IN  /\ THREADS' = x.threads
                       /\ CURRENT_THREAD' = x.current
                       /\ regs' = x.frame
                       /\ mode' = x.mode
    /\ UNCHANGED << NUM_FREE_PAGE_DIRS, PAGING_MODE, NX_ENABLED, dev, kheap, console, mapped_end, SEED, prev, ops >>

\* the tail shared by the handlers that end in schedule: r is the result of
\* schedule_run, back the frame and mode if schedule returns
Scheduled(r, back_frame, back_mode) ==
    /\ THREADS' = r.threads
    /\ CURRENT_THREAD' = r.current
    /\ cr3' = r.cr3
    /\ SEED' = r.seed
    /\ regs' = IF r.mode = "return" THEN back_frame ELSE r.frame
    /\ mode' = IF r.mode = "return" THEN back_mode ELSE r.mode
    /\ ops' = ops + 1

\* sys_yield on the trap frame `frame`; zero is what dispatch stores in the
\* rax slot for the 0 that sys_yield returns
sys_yield(frame, zero) ==
    /\ mode = "user"
    /\ ops < MaxSched
    /\ LET current == CURRENT_THREAD
           t1 == [ save_state(THREADS, current, frame) EXCEPT ![current].state = "Ready" ]
       IN  \E s \in { schedule(t1, current, SEED, t1[current].tid, FALSE) } :
           \E r \in { schedule_run(t1, current, cr3, frame, s) } :
           /\ Scheduled(r, [ frame EXCEPT !.rax = zero ], "user")
           /\ last' = [ op |-> "yield", arg |-> current, ret |-> r.next, pre |-> Snapshot ]
    /\ UNCHANGED << PAGE_REFS, NEXT_FREE, mem, NUM_FREE_PAGE_DIRS, PAGING_MODE, NX_ENABLED, dev, kheap, console, mapped_end, prev >>

SysYield == sys_yield([ regs EXCEPT !.rax = 1 ], 0)

\* sys_exit -> exit_thread, on the trap frame `frame`
sys_exit(frame) ==
    /\ mode = "user"
    /\ ops < MaxSched
    /\ LET current == CURRENT_THREAD
           t1 == [ THREADS EXCEPT ![current].state = "Unused" ]
       IN  \E s \in { schedule(t1, current, SEED, -1, TRUE) } :
           \E r \in { schedule_run(t1, current, cr3, frame, s) } :
           /\ Scheduled(r, frame, "hang")
           /\ last' = [ op |-> "exit", arg |-> current, ret |-> r.next, pre |-> Snapshot ]
    /\ UNCHANGED << PAGE_REFS, NEXT_FREE, mem, NUM_FREE_PAGE_DIRS, PAGING_MODE, NX_ENABLED, dev, kheap, console, mapped_end, prev >>

SysExit == sys_exit([ regs EXCEPT !.rax = 0 ])

SysFork ==
    /\ mode = "user"
    /\ \E f \in { fork_current(Now, NUM_FREE_PAGE_DIRS) } :
       LET current == CURRENT_THREAD
           frame == [ regs EXCEPT !.rax = 4 ]
           t1 == save_state(THREADS, current, frame)
           c == create_thread(t1, current, f.ret, TRUE)
           t2 == set_return([ c.threads EXCEPT ![c.tid].cpu_state = t1[current].cpu_state ],
                            c.tid, 0)
       IN  /\ SetMachine(f.k)
           /\ NUM_FREE_PAGE_DIRS' = f.num_free
           /\ IF f.k.st # "ok"
              THEN /\ mode' = f.k.st
                   /\ last' = [ op |-> "fork", arg |-> current, ret |-> NONE, pre |-> Snapshot,
                                oob |-> f.k.oob ]
                   /\ UNCHANGED << THREADS, regs >>
              ELSE IF f.ret = NONE
              THEN /\ mode' = "user"
                   /\ regs' = [ frame EXCEPT !.rax = ENOMEM ]
                   /\ last' = [ op |-> "fork", arg |-> current, ret |-> ENOMEM, pre |-> Snapshot,
                                oob |-> f.k.oob ]
                   /\ UNCHANGED THREADS
              ELSE IF c.tid = NONE
              THEN /\ mode' = "user"
                   /\ regs' = [ frame EXCEPT !.rax = ENOMEM ]
                   /\ THREADS' = t1
                   /\ last' = [ op |-> "fork", arg |-> current, ret |-> ENOMEM, pre |-> Snapshot,
                                oob |-> f.k.oob ]
              ELSE /\ mode' = "user"
                   /\ regs' = [ frame EXCEPT !.rax = c.tid ]
                   /\ THREADS' = t2
                   /\ last' = [ op |-> "fork", arg |-> current, ret |-> c.tid, pre |-> Snapshot,
                                oob |-> f.k.oob ]
    /\ UNCHANGED << CURRENT_THREAD, SEED, prev, ops, PAGING_MODE, NX_ENABLED, dev, kheap, console, mapped_end >>

\* a load or store by user code; a fault it cannot resolve ends in
\* segv_current_thread -> signal_thread
UserAccess(v, kind, val) ==
    /\ mode = "user"
    /\ \E a \in { access(Now, v, [ kind |-> kind, slot |-> 0, val |-> val, user |-> TRUE ],
                           MaxFaults) } :
       LET current == CURRENT_THREAD
           t1 == [ THREADS EXCEPT ![current].state = "Unused" ]
       IN  /\ PAGE_REFS' = a.k.refs
           /\ NEXT_FREE' = a.k.next
           /\ mem' = a.k.mem
           /\ IF a.k.st = "segv" /\ THREADS[current].pid # 0
              THEN /\ ops < MaxSched
                   /\ \E s \in { schedule(t1, current, SEED, THREADS[current].tid, TRUE) } :
                      \E r \in { schedule_run(t1, current, a.k.cr3, regs, s) } :
                         /\ Scheduled(r, regs, "user")
                         /\ last' = [ op |-> "segv", arg |-> current, ret |-> r.next,
                                      pre |-> Snapshot ]
              ELSE /\ mode' = IF a.k.st = "ok" THEN "user"
                              ELSE IF a.k.st = "segv" THEN "hang" ELSE a.k.st
                   /\ last' = [ op |-> "access", arg |-> << v, kind, val >>,
                                ret |-> IF a.k.st = "ok" /\ kind = "rd_dat" THEN a.val ELSE "none",
                                pre |-> Snapshot ]
                   /\ UNCHANGED << cr3, THREADS, CURRENT_THREAD, SEED, regs, ops >>
    /\ UNCHANGED << NUM_FREE_PAGE_DIRS, PAGING_MODE, NX_ENABLED, dev, kheap, console, mapped_end, prev >>

Next ==
    \/ InitThreading
    \/ \E elf \in Elfs, header_cached \in BOOLEAN : Startup(elf, header_cached)
    \/ SysYield
    \/ SysExit
    \/ SysFork
    \/ \E v \in UserPageArgs, val \in DataVals : UserAccess(v, "wr_dat", val)
    \/ \E v \in UserPageArgs : UserAccess(v, "rd_dat", "zero")

Spec == Init /\ [][Next]_vars

-----------------------------------------------------------------------------
(* Properties of the kernel as a whole                                     *)

RunningTCBs == { i \in ThreadIdx : THREADS[i].state = "Running" }

\* C3: in every state reachable after init_threading at most one TCB of the
\* thread array has state Running.
C3_Original == mode # "boot" => Cardinality(RunningTCBs) <= 1

\* C9: when a process terminates (exit syscall, or SEGV of the current
\* thread) its TCB becomes Unused and the reference count of every physical
\* page its address space held is decremented.
C9_Original ==
    last.op \in { "exit", "segv" } =>
        /\ THREADS[last.arg].state = "Unused"
        /\ \A q \in last.pre.held : PAGE_REFS[q] = last.pre.refs[q] - 1

\* A fork that nothing entitles to fail: a free physical page for the
\* child's directory and for each user page table it copies, and a free TCB.
ForkCanSucceed(pre) ==
    /\ free_page_count(pre.refs) >= 1 + Cardinality(pre.dirs)
    /\ \E i \in ThreadIdx : pre.threads[i].state = "Unused"

Processes == { i \in ThreadIdx : THREADS[i].state # "Unused" /\ THREADS[i].page_dir \in PageIdx }

C11_Original ==
    (/\ last.op \in { "exit", "segv" }
     /\ ReadyOthers(last.pre.threads, last.arg) = {}) =>
        /\ CURRENT_THREAD = 0
        /\ regs = THREADS[0].cpu_state
        /\ regs # CpuState_empty

\* the slots an operation took out of the Unused state
Created == { i \in ThreadIdx : last.pre.threads[i].state = "Unused"
                                 /\ THREADS[i].state # "Unused" }

\* C12: in every state reachable after init_threading slot 0 is not Unused,
\* and create_thread never hands slot 0 out to a new thread.
C12_IdleSlotKept ==
    /\ mode # "boot" => THREADS[0].state # "Unused"
    /\ last.op \in { "startup", "fork", "yield", "exit", "segv", "access" } =>
          0 \notin Created

C12_Witness ==
    /\ last.op = "startup"
    /\ Created = { 1 }
    /\ THREADS[1].tid = 1
    /\ THREADS[0].state = "Running"

-----------------------------------------------------------------------------
(* SpecYield: sys_yield and schedule on the thread tables of SpecSched     *)

InitYield ==
    /\ THREADS \in SchedTables
    /\ CURRENT_THREAD \in ThreadIdx
    /\ \A i \in ThreadIdx :
          (i # 0 /\ i # CURRENT_THREAD) => THREADS[i].state # "Running"
    /\ SEED \in SeedSamples
    /\ cr3 = THREADS[CURRENT_THREAD].page_dir
    /\ regs = init_user_process(0)
    /\ PAGE_REFS = BootRefs
    /\ NEXT_FREE = kernel_high
    /\ mem = BootMem
    /\ NUM_FREE_PAGE_DIRS = 0
    /\ PAGING_MODE = "Legacy"
    /\ NX_ENABLED = FALSE
    /\ mapped_end = HEAP_BASE_IDX
    /\ mode = "user"
    /\ last = NoOp
    /\ prev = NoOp
    /\ ops = 0
    /\ DevInit
    /\ HeapInit
    /\ ConsoleInit

NextYield == NextSched \/ SysYield

SpecYield == InitYield /\ [][NextYield]_vars

\* the state a yield by a Running user thread must leave
C13_Post ==
    (/\ last.op = "yield"
     /\ last.arg # 0
     /\ last.pre.threads[last.arg].state = "Running"
     /\ last.pre.threads[last.arg].tid = last.arg) =>
        LET t == last.arg
            frame == [ last.pre.regs EXCEPT !.rax = 1 ]
            saved == [ last.pre.threads EXCEPT ![t].cpu_state = frame,
                                               ![t].state = "Ready" ]
            cand == ReadyOthers(last.pre.threads, t)
        IN  IF cand # {}
            THEN /\ last.ret \in cand
                 /\ THREADS = [ saved EXCEPT ![last.ret].state = "Running" ]
                 /\ CURRENT_THREAD = last.ret
                 /\ regs = saved[last.ret].cpu_state
            ELSE /\ last.ret = NONE
                 /\ THREADS = saved
                 /\ CURRENT_THREAD = t
                 /\ mode = "user"
                 /\ regs = [ frame EXCEPT !.rax = 0 ]

\* a Ready thread that is not the current one leaves Ready only by being
\* switched to
C13_Stay ==
    \A t \in ThreadIdx :
        (/\ THREADS[t].state = "Ready"
         /\ t # CURRENT_THREAD
         /\ THREADS'[t].state # "Ready") =>
            /\ THREADS'[t].state = "Running"
            /\ CURRENT_THREAD' = t

\* C13: yield by the current thread t saves t's trap frame into its TCB and
\* sets t Ready; if another thread with tid # 0 is Ready that thread becomes
\* Running and t stays Ready until rescheduled; if none is, schedule
\* returns and t continues in user mode with its TCB state still Ready.
C13_YieldContract == [][C13_Post' /\ C13_Stay]_vars

C13_Witness ==
    /\ last.op = "yield"
    /\ last.arg # 0
    /\ last.pre.threads[last.arg].state = "Running"
    /\ last.ret # NONE
    /\ last.ret # last.arg
    /\ THREADS[last.arg].state = "Ready"
    /\ THREADS[last.arg].cpu_state.rax = 1
    /\ THREADS[last.ret].state = "Running"

-----------------------------------------------------------------------------
(* SpecTrap: the page-fault handler in both paging modes.  The CPU decides *)
(* the mode at boot (enable_paging, finish_setup_paging); user code then   *)
(* runs, and the handler is entered with each error code.                  *)

MaxTraps == 2

\* enable_pae and finish_setup_paging: the PDPT with the recursive entry
\* PDPT[3] and the kernel table PDPT[5]; the identity entry PDPT[0] removed.
\* (PDPT[4], the empty table of the long-mode region, is not represented.)
BootPDPT ==
    Put(Put(NoEntries, PAGE_TABLE_BASE_IDX \div (EPP_PAE * EPP_PAE),
            E_new(PD_PHYS, TRUE, FALSE)),
        (KERNEL_BASE_IDX \div EPP_PAE) % EPP_PAE, E_new(PT_KERNEL_PHYS, TRUE, FALSE))

\* pt_kernel in PAE mode: low memory at LOW_MEM_BASE, the kernel image at
\* KERNEL_BASE; harden_kernel marks the data pages no-execute when NX is on.
BootPTPae(nx) ==
    LET low == LOW_MEM_BASE_IDX % EPP_PAE
        kern == KERNEL_BASE_IDX % EPP_PAE
    IN  [ j \in { low + i : i \in 0 .. (LOW_PAGES - 1) }
                \cup { kern + i : i \in 0 .. (kernel_high - kernel_low - 1) } |->
            IF j < kern
            THEN E_new(j - low, TRUE, FALSE)
            ELSE [ E_new(kernel_low + (j - kern), kernel_low + (j - kern) # ZERO_PHYS, FALSE)
                     EXCEPT !.nx = nx ] ]

BootMemPae(nx) ==
    [ q \in PageIdx |->
        IF q = PD_PHYS THEN [ ent |-> BootPDPT, dat |-> "zero" ]
        ELSE IF q = PT_KERNEL_PHYS THEN [ ent |-> BootPTPae(nx), dat |-> "zero" ]
        ELSE IF q = SCRATCH_PHYS THEN [ ent |-> NoEntries, dat |-> "boot" ]
        ELSE ZeroPage ]

\* the reference counts after KernelInit on a machine whose RAM fills the
\* physical table
BootRefsTrap ==
    mark_reserved(init_phys_mm(MMapAll, kernel_low, kernel_high).refs,
                  ZERO_PHYS, ZERO_PHYS + 1)

\* cpu_supports_pae() and cpu_supports_nx() are inputs of the boot
InitTrap ==
    /\ PAGING_MODE \in { "Legacy", "Pae" }
    /\ NX_ENABLED \in BOOLEAN
    /\ NX_ENABLED => PAGING_MODE = "Pae"
    /\ mapped_end = HEAP_BASE_IDX
    /\ PAGE_REFS = BootRefsTrap
    /\ NEXT_FREE = kernel_high
    /\ mem = IF PAGING_MODE = "Pae" THEN BootMemPae(NX_ENABLED) ELSE BootMem
    /\ cr3 = PD_PHYS
    /\ NUM_FREE_PAGE_DIRS = 0
    /\ THREADS = [ i \in ThreadIdx |-> Thread_empty ]
    /\ CURRENT_THREAD = NULL
    /\ SEED = SEED_INIT
    /\ regs = CpuState_empty
    /\ mode = "boot"
    /\ last = NoOp
    /\ prev = NoOp
    /\ ops = 0
    /\ DevInit
    /\ HeapInit
    /\ ConsoleInit

\* the leaf entry for virtual page v in the current address space
pte(v) == IF PAGING_MODE = "Pae" THEN lookup_pae(mem, cr3, v) ELSE lookup(mem, cr3, v)

\* the same in the memory of a snapshot
pte_in(m, v) == IF PAGING_MODE = "Pae" THEN lookup_pae(m, cr3, v) ELSE lookup(m, cr3, v)

\* executables with a page shared by an executable and a writable segment,
\* in both orders of the program headers
ElfsTrap ==
    { [ ok |-> TRUE, entry |-> TEXT_PAGE,
        segs |-> << Segment(TEXT_PAGE, 1, 1, FALSE, TRUE) >> ],
      [ ok |-> TRUE, entry |-> TEXT_PAGE,
        segs |-> << Segment(TEXT_PAGE, 1, 1, TRUE, FALSE) >> ],
      [ ok |-> TRUE, entry |-> TEXT_PAGE,
        segs |-> << Segment(TEXT_PAGE, 1, 1, FALSE, FALSE) >> ],
      [ ok |-> TRUE, entry |-> TEXT_PAGE,
        segs |-> << Segment(TEXT_PAGE, 1, 1, FALSE, TRUE),
                    Segment(TEXT_PAGE, 1, 1, TRUE, FALSE) >> ],
      [ ok |-> TRUE, entry |-> TEXT_PAGE,
        segs |-> << Segment(TEXT_PAGE, 1, 1, TRUE, FALSE),
                    Segment(TEXT_PAGE, 1, 1, FALSE, TRUE) >> ] }

\* 0xC0606: an entry of the root table above the recursive entry
ABOVE_ROOT_PAGE == USER_ENTRY_LIMIT_PAE + 3

\* fault addresses: both ends of the two null-guard ranges, user pages with
\* and without a page table, the window below and above the recursive root
\* entry, and the kernel image
FaultPages ==
    { 0, NULL_LIMIT_PAGES - 1, TEXT_PAGE, TEXT_PAGE + 1, STACK_PAGE,
      PAGE_TABLE_BASE_IDX + 1, ABOVE_ROOT_PAGE, KERNEL_BASE_IDX,
      NUM_PAGES - NULL_LIMIT_PAGES, NUM_PAGES - 1 }

\* the page user code reads, writes and jumps to
TrapPages == { TEXT_PAGE }

\* vector 14 with the error code [present, write, user, instruction_fetch]
\* and CR2 in page v; a kernel-mode fault is one taken inside a kernel entry
\* made by the current thread, so its handler is the second trap context
PageFault(v, present, write, user, instruction_fetch) ==
    /\ mode = "user"
    /\ ops < MaxTraps
    /\ \E k \in { page_fault(Trap(Now, IF user THEN 1 ELSE 2), v, present, write, user,
                             instruction_fetch, MaxFaults) } :
       LET current == CURRENT_THREAD
           t1 == [ THREADS EXCEPT ![current].state = "Unused" ]
           err == [ v |-> v, present |-> present, write |-> write, user |-> user,
                    instruction_fetch |-> instruction_fetch ]
       IN  /\ PAGE_REFS' = k.refs
           /\ NEXT_FREE' = k.next
           /\ mem' = k.mem
           /\ last' = [ op |-> "fault", arg |-> err, ret |-> k.st, pre |-> Snapshot,
                        cow_traps |-> k.cow_traps ]
           /\ IF k.st = "segv" /\ THREADS[current].pid # 0
              THEN \E s \in { schedule(t1, current, SEED, THREADS[current].tid, TRUE) } :
                   \E r \in { schedule_run(t1, current, k.cr3, regs, s) } :
                       Scheduled(r, regs, "user")
              ELSE /\ mode' = IF k.st = "ok" THEN "user"
                              ELSE IF k.st = "segv" THEN "hang" ELSE k.st
                   /\ ops' = ops + 1
                   /\ UNCHANGED << cr3, THREADS, CURRENT_THREAD, SEED, regs >>
    /\ UNCHANGED << NUM_FREE_PAGE_DIRS, PAGING_MODE, NX_ENABLED, dev, kheap, console, mapped_end, prev >>

\* syscalls.rs
ENOENT == -2
ENOEXEC == -8

\* init.elf
InitElf == [ ok |-> TRUE, entry |-> TEXT_PAGE,
             segs |-> << Segment(TEXT_PAGE, 1, 1, FALSE, TRUE) >> ]

\* a file that is not an executable
NotElf == [ ok |-> FALSE, entry |-> 0, segs |-> << >> ]

\* the files user code names in exec
ExecFiles == { NotElf } \cup ElfsTrap

\* sys_exec: the file is read into a heap buffer, free_user_pages, load_elf,
\* then the current thread restarts at the entry point.  (The contents of
\* the buffer are the argument `file`; the heap pages keep their data.)
\* found: find_file knows the path.  last.heap and last.freed are the
\* reference counts when the buffer is allocated and when free_user_pages
\* has returned.
SysExec(found, file) ==
    /\ mode = "user"
    /\ ops < MaxTraps
    /\ ops' = ops + 1
    /\ LET current == CURRENT_THREAD
           frame == [ regs EXCEPT !.rax = 5 ]
       IN
       IF ~found
       THEN /\ regs' = [ frame EXCEPT !.rax = ENOENT ]
            /\ last' = [ op |-> "exec", arg |-> file, ret |-> "ENOENT", pre |-> Snapshot,
                         heap |-> PAGE_REFS, freed |-> PAGE_REFS, cow_traps |-> 0,
                         oob |-> FALSE ]
            /\ UNCHANGED << PAGE_REFS, NEXT_FREE, mem, cr3, mapped_end, THREADS,
                            CURRENT_THREAD, mode >>
       ELSE
       \E h \in { heap_alloc(Trap(Now, 1), mapped_end, FILE_PAGES) } :
       \E k1 \in { free_user_pages(h.k) } :
       \E l \in { load_elf(k1, file, FALSE, TRUE) } :
           /\ PAGE_REFS' = l.k.refs
           /\ NEXT_FREE' = l.k.next
           /\ mem' = l.k.mem
           /\ mapped_end' = h.me
           /\ IF l.k.st # "ok"
              THEN /\ mode' = l.k.st
                   /\ last' = [ op |-> "exec", arg |-> file, ret |-> l.k.st, pre |-> Snapshot,
                                heap |-> h.k.refs, freed |-> k1.refs,
                                cow_traps |-> l.k.cow_traps, oob |-> l.k.oob ]
                   /\ UNCHANGED << cr3, THREADS, CURRENT_THREAD, regs >>
              ELSE IF l.ret = "err"
              THEN /\ regs' = [ frame EXCEPT !.rax = ENOEXEC ]
                   /\ last' = [ op |-> "exec", arg |-> file, ret |-> "ENOEXEC", pre |-> Snapshot,
                                heap |-> h.k.refs, freed |-> k1.refs,
                                cow_traps |-> l.k.cow_traps, oob |-> l.k.oob ]
                   /\ UNCHANGED << cr3, THREADS, CURRENT_THREAD, mode >>
              ELSE \E x \in { exit_to_thread(
                                [ THREADS EXCEPT ![current].cpu_state =
                                                     init_user_process(l.entry) ],
                                cr3, current) } :
                   /\ THREADS' = x.threads
                   /\ CURRENT_THREAD' = x.current
                   /\ cr3' = x.cr3
                   /\ regs' = x.frame
                   /\ mode' = x.mode
                   /\ last' = [ op |-> "exec", arg |-> file, ret |-> "ok", pre |-> Snapshot,
                                heap |-> h.k.refs, freed |-> k1.refs,
                                cow_traps |-> l.k.cow_traps, oob |-> l.k.oob ]
    /\ UNCHANGED << NUM_FREE_PAGE_DIRS, PAGING_MODE, NX_ENABLED, dev, kheap, console, SEED, prev >>

NextTrap ==
    \/ InitThreading
    \/ \E header_cached \in BOOLEAN : Startup(InitElf, header_cached)
    \/ \E file \in ExecFiles : SysExec(TRUE, file)
    \/ SysExec(FALSE, NotElf)
    \/ SysFork
    \/ \E v \in TrapPages : UserAccess(v, "wr_dat", "A")
    \/ \E v \in TrapPages : UserAccess(v, "rd_dat", "zero")
    \/ \E v \in TrapPages : UserAccess(v, "fetch", "zero")
    \/ \E v \in FaultPages, present \in BOOLEAN, write \in BOOLEAN, user \in BOOLEAN,
          instruction_fetch \in BOOLEAN :
           PageFault(v, present, write, user, instruction_fetch)

SpecTrap == InitTrap /\ [][NextTrap]_vars

-----------------------------------------------------------------------------
(* Claims about the page-fault handler (SpecTrap)                          *)

\* a step other than exec and other than a fault reported as not-present
C16_Step ==
    \A v \in TrapPages :
        (/\ mode = "user"
         /\ pte(v).p /\ pte(v).ro
         /\ last'.op # "exec"
         /\ ~(last'.op = "fault" /\ ~last'.arg.present)) =>
            /\ pte(v)' = pte(v)
            /\ ~pte(v)'.w
            /\ PAGE_REFS'[pte(v).page] = PAGE_REFS[pte(v).page]

\* a write fault on a present SOFT_RO user page
C16_Fault ==
    (/\ last.op = "fault"
     /\ last.arg.present /\ last.arg.write
     /\ last.arg.v \in TrapPages
     /\ pte_in(last.pre.mem, last.arg.v).p
     /\ pte_in(last.pre.mem, last.arg.v).ro) =>
        /\ last.ret = IF last.arg.user THEN "segv" ELSE "panic"
        /\ mem = last.pre.mem
        /\ PAGE_REFS = last.pre.refs
        /\ last.arg.user => THREADS[last.pre.current].state = "Unused"

\* C16: once a user page's entry has SOFT_RO set by load_elf, no sequence of
\* write faults, forks and COW resolutions makes the page writable: the
\* entry and the count of its page stay as they are, and every write fault
\* on it ends in SEGV of the thread (user mode) or panic (kernel mode) with
\* memory and all reference counts unchanged.
C16_SoftRoForever == [][C16_Step /\ C16_Fault']_vars

C16_Witness ==
    /\ last.op = "fault"
    /\ last.arg.v = TEXT_PAGE
    /\ last.arg.present /\ last.arg.write /\ last.arg.user
    /\ ~last.arg.instruction_fetch
    /\ pte_in(last.pre.mem, TEXT_PAGE).ro
    /\ last.ret = "segv"
    /\ pte(TEXT_PAGE).ro /\ ~pte(TEXT_PAGE).w

\* the fault address lies in [0, 0x10000) or [0xFFFF0000, 0xFFFFFFFF]
InNullRange(v) == v < NULL_LIMIT_PAGES \/ v >= NUM_PAGES - NULL_LIMIT_PAGES

\* C17: for every page fault whose address lies in the first or the last
\* 64 KB, whatever the present, write and instruction-fetch bits, the
\* handler installs no mapping and changes no reference count; a user-mode
\* fault kills the current thread (SEGV), a kernel-mode fault panics.
C17_NullGuard ==
    (last.op = "fault" /\ InNullRange(last.arg.v)) =>
        /\ mem = last.pre.mem
        /\ PAGE_REFS = last.pre.refs
        /\ NEXT_FREE = last.pre.next
        /\ IF last.arg.user
           THEN /\ last.ret = "segv"
                /\ THREADS[last.pre.current].state = "Unused"
           ELSE /\ last.ret = "panic"
                /\ mode = "panic"
                /\ THREADS = last.pre.threads

C17_Witness ==
    /\ last.op = "fault"
    /\ last.arg.v = NULL_LIMIT_PAGES - 1
    /\ last.arg.user /\ ~last.arg.present /\ last.arg.write
    /\ last.ret = "segv"
    /\ last.pre.threads[last.pre.current].state = "Running"
    /\ THREADS[last.pre.current].state = "Unused"
    /\ mem = last.pre.mem

\* no physical page is left for a COW copy
NoFreePage == \A q \in PageIdx : q >= LOW_PAGES => PAGE_REFS[q] # 0

EntryAt(k, idx) ==
    LET t == translate(k, PAGE_TABLE_BASE_IDX + idx \div epp(k)) IN
    IF t.p THEN Get(k.mem[t.page].ent, idx % epp(k)) ELSE E_default

\* the last operation was a not-present fault that passed the null-guard
\* and kernel-range checks and was handled
Demand ==
    /\ last.op = "fault"
    /\ ~last.arg.present
    /\ ~InNullRange(last.arg.v)
    /\ ~(last.arg.user /\ last.arg.v >= PAGE_TABLE_BASE_IDX)
    /\ ~(~last.arg.user /\ last.arg.v >= KERNEL_BASE_IDX)
    /\ last.ret = "ok"

\* the entry installed for the faulting page
C19_Entry ==
    LET e == EntryAt(Now, last.arg.v) IN
    /\ e.p /\ e.page = ZERO_PHYS
    /\ ~e.w /\ ~e.ro
    /\ e.u <=> (last.arg.v < (IF PAGING_MODE = "Pae" THEN USER_ENTRY_LIMIT_PAE
                                                     ELSE USER_ENTRY_LIMIT))
    /\ e.nx <=> (NX_ENABLED /\ last.arg.v < PAGE_TABLE_BASE_IDX)

\* C19 as stated: a not-present fault that passes the null-guard and
\* kernel-range checks installs a present, non-writable, non-SOFT_RO entry
\* for the zero page, user-accessible iff its index is below the recursive
\* root entry, NX iff NX is enabled and the page is below PAGE_TABLE_BASE;
\* no physical page is allocated and no reference count changes.
C19_Original ==
    Demand => /\ C19_Entry
              /\ PAGE_REFS = last.pre.refs
              /\ NEXT_FREE = last.pre.next

\* the table that holds entries[v] was present and writable before the fault
TableReady ==
    LET t == translate(Machine(last.pre.refs, last.pre.next, last.pre.mem, cr3),
                       PAGE_TABLE_BASE_IDX + last.arg.v \div epp(Now))
    IN  t.p /\ t.w

\* the pages whose count the fault changed
Allocated == { q \in PageIdx : PAGE_REFS[q] # last.pre.refs[q] }

\* C19 (amended): the entry is as stated; no reference count changes when
\* the table holding the entry is present and writable, and otherwise the
\* only changes are free pages taken with count 1 for the missing table
\* levels (at most one per level), each now a table of the current address
\* space.
C19_DemandPage ==
    Demand => /\ C19_Entry
              /\ TableReady => PAGE_REFS = last.pre.refs /\ NEXT_FREE = last.pre.next
              /\ \A q \in Allocated : last.pre.refs[q] = 0 /\ PAGE_REFS[q] = 1
              /\ Cardinality(Allocated) <= (IF PAGING_MODE = "Pae" THEN 2 ELSE 1)
              /\ Allocated # {} =>
                    translate(Now, PAGE_TABLE_BASE_IDX + last.arg.v \div epp(Now)).page
                        \in Allocated

C19_Witness ==
    /\ Demand
    /\ PAGING_MODE = "Pae" /\ NX_ENABLED
    /\ last.arg.v = STACK_PAGE
    /\ last.arg.user
    /\ EntryAt(Now, STACK_PAGE).nx
    /\ EntryAt(Now, STACK_PAGE).page = ZERO_PHYS
    /\ Cardinality(Allocated) = 2

\* the pages the PT_LOAD segments of an executable cover
Covered(elf) ==
    UNION { { elf.segs[i].vaddr + j : j \in 0 .. (elf.segs[i].memsz - 1) } :
            i \in 1 .. Len(elf.segs) }

\* page v lies in at least one executable segment
InExecutable(elf, v) ==
    \E i \in 1 .. Len(elf.segs) :
        /\ elf.segs[i].x
        /\ v \in { elf.segs[i].vaddr + j : j \in 0 .. (elf.segs[i].memsz - 1) }

\* C20: in PAE mode with NX enabled, after load_elf every loaded user page
\* covered only by non-executable segments has NX=1 and every page covered
\* by at least one executable segment has NX=0, whatever the order of the
\* segments.
C20_Original ==
    (/\ last.op = "exec" /\ last.ret = "ok"
     /\ PAGING_MODE = "Pae" /\ NX_ENABLED) =>
        \A v \in Covered(last.arg) :
            /\ pte(v).p
            /\ pte(v).nx <=> ~InExecutable(last.arg, v)

-----------------------------------------------------------------------------
(* SpecCow: write faults on pages that are shared.  The states are those   *)
(* the leaf branch of recursively_copy_page_table_generic builds for a     *)
(* private page (inc_shared_count, set_writable(false)), taken after       *)
(* startup with the page of init's image held 1, 2 or 254 times.           *)

CowCounts == { 1, 2, RESERVED - 1 }

\* the machine and the thread table when startup has switched to init
AfterStartup(d) ==
    LET boot == IF PAGING_MODE = "Pae" THEN BootMemPae(NX_ENABLED) ELSE BootMem
        l == load_elf(Machine(BootRefsTrap, kernel_high,
                              [ boot EXCEPT ![SCRATCH_PHYS] =
                                  [ ent |-> NoEntries, dat |-> "elf" ] ], PD_PHYS),
                      InitElf, TRUE, TRUE)
        k == access(l.k, TEXT_PAGE,
                    [ kind |-> "wr_dat", slot |-> 0, val |-> d, user |-> TRUE ],
                    MaxFaults).k
        c == create_thread(init_threading([ i \in ThreadIdx |-> Thread_empty ], PD_PHYS),
                           NONE, PD_PHYS, TRUE)
        x == exit_to_thread([ c.threads EXCEPT ![c.tid].cpu_state =
                                                 init_user_process(l.entry) ],
                            PD_PHYS, c.tid)
    IN  [ k |-> k, x |-> x ]

\* the leaf entry of TEXT_PAGE made read-only and its page held n times
Shared(k, n) ==
    LET e == EntryAt(k, TEXT_PAGE) IN
    [ entry_write(k, TEXT_PAGE, [ e EXCEPT !.w = FALSE ], MaxFaults)
        EXCEPT !.refs[e.page] = n ]

InitCow ==
    /\ PAGING_MODE \in { "Legacy", "Pae" }
    /\ NX_ENABLED \in BOOLEAN
    /\ NX_ENABLED => PAGING_MODE = "Pae"
    /\ mapped_end = HEAP_BASE_IDX
    /\ cr3 = PD_PHYS
    /\ \E d \in DataVals, n \in CowCounts :
       \E s \in { AfterStartup(d) } :
       \E k \in { Shared(s.k, n) } :
           /\ PAGE_REFS = k.refs
           /\ NEXT_FREE = k.next
           /\ mem = k.mem
           /\ THREADS = s.x.threads
           /\ CURRENT_THREAD = s.x.current
           /\ regs = s.x.frame
           /\ mode = s.x.mode
    /\ NUM_FREE_PAGE_DIRS = 0
    /\ SEED = SEED_INIT
    /\ last = NoOp
    /\ prev = NoOp
    /\ ops = 0
    /\ DevInit
    /\ HeapInit
    /\ ConsoleInit

\* the pages written to: init's page, a page mapped on demand, and a table
\* of the window above the recursive root entry
CowPages == { TEXT_PAGE, TEXT_PAGE + 1, ABOVE_ROOT_PAGE }

NextCow ==
    \/ \E v \in CowPages, present \in BOOLEAN, user \in BOOLEAN :
           PageFault(v, present, TRUE, user, FALSE)
    \/ \E v \in { TEXT_PAGE, TEXT_PAGE + 1 } : UserAccess(v, "rd_dat", "zero")

SpecCow == InitCow /\ [][NextCow]_vars

\* the machine the last operation started on
Before == Machine(last.pre.refs, last.pre.next, last.pre.mem, cr3)

\* the last operation was a write protection fault on a present page whose
\* entry is not SOFT_RO, taken where the handler resolves faults
CowFault ==
    /\ last.op = "fault"
    /\ last.arg.present /\ last.arg.write /\ ~last.arg.instruction_fetch
    /\ ~InNullRange(last.arg.v)
    /\ ~(last.arg.user /\ last.arg.v >= PAGE_TABLE_BASE_IDX)
    /\ ~(~last.arg.user /\ last.arg.v >= KERNEL_BASE_IDX)
    /\ EntryAt(Before, last.arg.v).p
    /\ ~EntryAt(Before, last.arg.v).ro

\* C15: on a write protection fault to a present page whose entry is not
\* SOFT_RO: if the page's reference count is 1 the entry becomes writable,
\* keeps its physical page and no count changes; otherwise the old page's
\* count goes down by one (stays if RESERVED) and a freshly allocated page,
\* different from the old one and with count 1, is installed writable with
\* the user bit preserved and holds a copy of the old page's contents.
C15_CowContract ==
    CowFault =>
        LET old == EntryAt(Before, last.arg.v)
            new == EntryAt(Now, last.arg.v)
        IN  IF last.pre.refs[old.page] = 1
            THEN /\ last.ret = "ok"
                 /\ new = [ old EXCEPT !.w = TRUE ]
                 /\ PAGE_REFS = last.pre.refs
                 /\ mem[old.page] = last.pre.mem[old.page]
            ELSE /\ last.ret \in { "ok", "panic" }
                 /\ PAGE_REFS[old.page] = IF last.pre.refs[old.page] = RESERVED THEN RESERVED
                                          ELSE last.pre.refs[old.page] - 1
                 /\ last.ret = "ok" =>
                      /\ new.p /\ new.w
                      /\ new.u = old.u
                      /\ new.page # old.page
                      /\ last.pre.refs[new.page] = 0
                      /\ PAGE_REFS[new.page] = 1
                      /\ \A q \in PageIdx \ { old.page, new.page } :
                             PAGE_REFS[q] = last.pre.refs[q]
                      /\ mem[new.page] = last.pre.mem[old.page]
                      /\ mem[old.page] = last.pre.mem[old.page]

C15_Witness ==
    /\ CowFault
    /\ last.arg.v = TEXT_PAGE
    /\ last.arg.user
    /\ last.ret = "ok"
    /\ last.pre.refs[EntryAt(Before, TEXT_PAGE).page] = 2
    /\ PAGE_REFS[EntryAt(Before, TEXT_PAGE).page] = 1
    /\ EntryAt(Now, TEXT_PAGE).w
    /\ EntryAt(Now, TEXT_PAGE).page # EntryAt(Before, TEXT_PAGE).page
    /\ mem[EntryAt(Now, TEXT_PAGE).page].dat \in DataVals

-----------------------------------------------------------------------------
(* Claims about exec and the address space it rebuilds (SpecTrap)          *)

\* the user pages the model maps: the pages of the executables and the top
\* of the stack
UserProbe == { TEXT_PAGE, TEXT_PAGE + 1, STACK_PAGE }

\* the user pages with a present leaf entry when the last operation started
UserLeaves == { v \in UserProbe : pte_in(last.pre.mem, v).p }

\* the leaves among them that map physical page q
LeavesOf(q) == { v \in UserLeaves : pte_in(last.pre.mem, v).page = q }

\* the pages of the kernel image and the pages the heap took for the buffer
KernelOnly ==
    { q \in PageIdx : \/ q \in kernel_low .. (kernel_high - 1)
                      \/ last.heap[q] # last.pre.refs[q] }

\* exec got as far as free_user_pages and that call returned
Freed == last.op = "exec" /\ last.ret \in { "ok", "ENOEXEC" }

\* C21: free_user_pages on the current address space decrements the
\* reference count of the physical page behind every present user-range
\* leaf entry exactly once (a RESERVED count stays), and decrements no
\* count of a page mapped only in the kernel range.
C21_Original ==
    Freed =>
        /\ \A v \in UserLeaves :
              LET q == pte_in(last.pre.mem, v).page IN
              last.freed[q] = IF last.heap[q] = RESERVED THEN RESERVED
                              ELSE last.heap[q] - Cardinality(LeavesOf(q))
        /\ \A q \in KernelOnly : last.freed[q] = last.heap[q]

\* what the code does instead: free_user_pages changes no count at all
C21_NothingFreed == Freed => last.freed = last.heap

\* the index of the recursive entry: 768 in a page directory, 3 in a PDPT
RootIndex ==
    IF PAGING_MODE = "Pae" THEN PAGE_TABLE_BASE_IDX \div (EPP_PAE * EPP_PAE)
    ELSE PAGE_TABLE_BASE_IDX \div EPP

\* the entries of a root table that point back to the root itself
SelfEntries(m, root) ==
    { j \in DOMAIN m[root].ent : m[root].ent[j].p /\ m[root].ent[j].page = root }

RootOk(m, root) == SelfEntries(m, root) = { RootIndex }

\* the roots in use: CR3 and the page_dir of every TCB in use
LiveRoots ==
    { cr3 } \cup { THREADS[i].page_dir : i \in { j \in ThreadIdx : THREADS[j].state # "Unused" } }

\* pages whose leaf entry is compared with entries[i] of the window
WindowProbe == UserProbe \cup { LOW_MEM_BASE_IDX, KERNEL_BASE_IDX, KERNEL_BASE_IDX + 1 }

\* every root in use has its one recursive entry at RootIndex, and
\* entries[i] read through the window is the leaf entry of page i
C22_BootRoot ==
    /\ \A root \in LiveRoots : RootOk(mem, root)
    /\ \A v \in WindowProbe : EntryAt(Now, v) = pte(v)

UserTrap == (last.op = "fault" /\ last.arg.user) \/ last.op = "exec"

\* C25: the TCB array, the physical-page reference table, the
\* page-directory pool and the heap free list are never read or written by
\* code that runs nested inside a syscall or page-fault handler: every
\* access made while the interrupt flag is set (isr_handler sets it for
\* vectors 14 and 48) comes from the single non-nested trap context.
C25_Original == UserTrap => last.cow_traps <= 1

\* how deep the handlers that work on the reference table are nested: the
\* trap itself, the fault its access takes, and one more fault per level of
\* page table that is missing
C25_Depth ==
    UserTrap => last.cow_traps <= (IF PAGING_MODE = "Pae" THEN 4 ELSE 3)

\* the pages that the present entries of the tables in S point to
Children(m, S) ==
    UNION { { m[q].ent[j].page : j \in { i \in DOMAIN m[q].ent : m[q].ent[i].p } } :
            q \in S \cap PageIdx }

\* the tables below the user entries of a root: those under
\* PAGE_TABLE_BASE
UserTables(m, root) ==
    { m[root].ent[j].page :
        j \in { i \in DOMAIN m[root].ent : i < RootIndex /\ m[root].ent[i].p } }

\* the physical pages behind the present user-range leaf entries of the
\* address space under root
UserLeafPages(m, root) ==
    IF PAGING_MODE = "Pae" THEN Children(m, Children(m, UserTables(m, root)))
    ELSE Children(m, UserTables(m, root))

\* C30: no use after free: in every reachable state every present
\* user-range leaf entry of every live address space (the current one and
\* that of every TCB in use) points to a physical page whose reference count
\* is at least 1 or RESERVED, also after exec has called free_user_pages.
C30_NoUseAfterFree ==
    \A root \in LiveRoots \cap PageIdx :
        \A q \in UserLeafPages(mem, root) : q \in PageIdx /\ PAGE_REFS[q] >= 1

\* exec has replaced the image and the entry page of the new one is mapped
C30_Witness ==
    /\ last.op = "exec"
    /\ last.ret = "ok"
    /\ mode = "user"
    /\ pte(TEXT_PAGE).p
    /\ pte(TEXT_PAGE).page \in UserLeafPages(mem, cr3)
    /\ PAGE_REFS[pte(TEXT_PAGE).page] \in 1 .. (RESERVED - 1)

-----------------------------------------------------------------------------
(* irq.rs: the 8259 PICs, register_irq and handle_irq; traps.rs:           *)
(* isr_handler for vectors 32-47.  A register of a PIC is the set of its   *)
(* bits that are 1.  SpecIrq: init_interrupts, then IRQs delivered while   *)
(* the interrupt flag is set, each handled step by step so that a second   *)
(* IRQ can arrive between any two port accesses of the first.              *)

\* activations of handle_irq nested at most this deep
MaxNest == 3
\* interrupts delivered in one behaviour
MaxIrqs == 3

Bits == 0 .. 7

\* (pic_port, irq_bit) of handle_irq: the owning PIC and the bit number
PicOf(irq) == IF irq < 8 THEN "MASTER" ELSE "SLAVE"
BitOf(irq) == IF irq < 8 THEN irq ELSE irq - 8

\* the slave is connected to IRQ2 of the master
CASCADE_IRQ == BitOf(2)

\* the bit a non-specific EOI clears: the in-service bit of highest priority
Lowest(isr) == CHOOSE b \in isr : \A c \in isr : b <= c

\* outb(cmd_port, EOI)
send_eoi(p, chip) ==
    IF p[chip].isr = {} THEN p
    ELSE [ p EXCEPT ![chip].isr = @ \ { Lowest(p[chip].isr) } ]

\* a PIC in fully nested mode passes on a request on line b: not masked and
\* nothing of the same or a higher priority in service
Accepts(p, chip, b) == b \notin p[chip].imr /\ \A c \in p[chip].isr : c > b

\* register_irq(irq, handler)
register_irq(p, handlers, irq, handler) ==
    IF irq >= 16 THEN [ ret |-> FALSE, pic |-> p, handlers |-> handlers ]
    ELSE LET mask == p[PicOf(irq)].imr IN
         IF BitOf(irq) \notin mask
         THEN [ ret |-> FALSE, pic |-> p, handlers |-> handlers ]
         ELSE [ ret |-> TRUE,
                pic |-> [ p EXCEPT ![PicOf(irq)].imr = mask \ { BitOf(irq) } ],
                handlers |-> [ handlers EXCEPT ![irq] = handler ] ]

\* remap_pic: both PICs initialised, every line masked except the cascade
remap_pic ==
    [ MASTER |-> [ imr |-> Bits \ { CASCADE_IRQ }, isr |-> {} ],
      SLAVE |-> [ imr |-> Bits, isr |-> {} ] ]

\* mutant: no vector is taken for a spurious one
is_spurious_never(irq_bit, isr) == FALSE

\* irq_bit == 0x80 and (isr & irq_bit) == 0, isr read from the command port
is_spurious(irq_bit, isr) == irq_bit = 7 /\ irq_bit \notin isr

\* mutant: the line is left as it is
mask_line_skip(mask, irq_bit) == mask

\* mask | irq_bit
mask_line(mask, irq_bit) == mask \cup { irq_bit }

\* the port accesses and flag changes of one handle_irq call, in the order
\* the claim gives them
Expected(irq) ==
    (IF irq >= 8 THEN << "eoi_master" >> ELSE << >>)
        \o << "mask", "eoi", "sti", "handler", "cli", "unmask" >>

InitIrq ==
    /\ pic = remap_pic
    /\ IFLAG = FALSE
    /\ IRQ_HANDLERS = [ i \in 0 .. 15 |-> "None" ]
    /\ TIMER_TICKS = 0
    /\ irq_stack = << >>
    /\ mode = "boot"
    /\ ops = 0
    /\ last = NoOp
    /\ prev = NoOp
    /\ THREADS = [ i \in ThreadIdx |-> Thread_empty ]
    /\ CURRENT_THREAD = NULL
    /\ SEED = SEED_INIT
    /\ regs = CpuState_empty
    /\ cr3 = PD_PHYS
    /\ PAGE_REFS = BootRefs
    /\ NEXT_FREE = kernel_high
    /\ mem = << >>
    /\ NUM_FREE_PAGE_DIRS = 0
    /\ PAGING_MODE = "Legacy"
    /\ NX_ENABLED = FALSE
    /\ mapped_end = 0
    /\ HeapInit
    /\ ConsoleInit

IrqFrame == << mode, last, prev, THREADS, CURRENT_THREAD, SEED, regs, cr3, PAGE_REFS,
               NEXT_FREE, mem, NUM_FREE_PAGE_DIRS, PAGING_MODE, NX_ENABLED, mapped_end, kheap, console >>

\* init_interrupts, with the slave line of a driver registered as well when
\* `driver` holds, and x86::sti() (lib.rs:188-192)
InitInterrupts(driver) ==
    /\ mode = "boot"
    /\ \E r0 \in { register_irq(remap_pic, IRQ_HANDLERS, 0, "timer_handler") } :
       \E r1 \in { register_irq(r0.pic, r0.handlers, 1, "keyboard_handler") } :
       \E r8 \in { IF driver THEN register_irq(r1.pic, r1.handlers, 8, "driver")
                   ELSE r1 } :
           /\ pic' = r8.pic
           /\ IRQ_HANDLERS' = r8.handlers
    /\ IFLAG' = TRUE
    /\ mode' = "user"
    /\ UNCHANGED << TIMER_TICKS, irq_stack, ops, last, prev, THREADS, CURRENT_THREAD, SEED,
                    regs, cr3, PAGE_REFS, NEXT_FREE, mem, NUM_FREE_PAGE_DIRS, PAGING_MODE,
                    NX_ENABLED, mapped_end, kheap, console >>

Activation(irq, real, p) ==
    [ irq |-> irq, pc |-> "isr_handler", mask |-> {}, trace |-> << >>,
      real |-> real, in_service |-> BitOf(irq) \in p[PicOf(irq)].isr,
      at |-> p ]

\* The CPU takes vector 32 + irq through an interrupt gate (IF cleared);
\* the activation records the PIC registers at that moment (at, in_service).
\* real: the PIC set the in-service bit of the line; otherwise the vector
\* is a spurious one (7 on either PIC; for the slave the master has a real
\* request on the cascade line).
Deliver(irq, real) ==
    /\ mode = "user"
    /\ IFLAG
    /\ Len(irq_stack) < MaxNest
    /\ ops < MaxIrqs
    /\ IF real
       THEN /\ Accepts(pic, PicOf(irq), BitOf(irq))
            /\ irq >= 8 => Accepts(pic, "MASTER", CASCADE_IRQ)
       ELSE /\ BitOf(irq) = 7
            /\ irq >= 8 => Accepts(pic, "MASTER", CASCADE_IRQ)
    /\ \E p1 \in { IF irq >= 8 THEN [ pic EXCEPT !["MASTER"].isr = @ \cup { CASCADE_IRQ } ]
                   ELSE pic } :
       \E p2 \in { IF real THEN [ p1 EXCEPT ![PicOf(irq)].isr = @ \cup { BitOf(irq) } ]
                   ELSE p1 } :
           /\ pic' = p2
           /\ irq_stack' = Append(irq_stack, Activation(irq, real, p2))
    /\ IFLAG' = FALSE
    /\ ops' = ops + 1
    /\ UNCHANGED << IRQ_HANDLERS, TIMER_TICKS >>
    /\ UNCHANGED IrqFrame

Top == irq_stack[Len(irq_stack)]

SetTop(a) == [ irq_stack EXCEPT ![Len(irq_stack)] = a ]

Did(a, pc, ev) == [ a EXCEPT !.pc = pc, !.trace = Append(@, ev) ]

\* one step of isr_handler / handle_irq for the innermost activation
IrqStep ==
    /\ irq_stack # << >>
    /\ LET a == Top
           chip == PicOf(a.irq)
           irq_bit == BitOf(a.irq)
       IN
       CASE a.pc = "isr_handler" ->
              \* int_num is neither 2 nor 8: x86::sti()
              /\ IFLAG' = TRUE
              /\ irq_stack' = SetTop([ a EXCEPT !.pc = "start" ])
              /\ UNCHANGED << pic, TIMER_TICKS >>
         [] a.pc = "start" ->
              /\ IF a.irq < 8
                 THEN /\ irq_stack' = SetTop([ a EXCEPT !.pc = "check" ])
                      /\ pic' = pic
                 ELSE /\ irq_stack' = SetTop(Did(a, "check", "eoi_master"))
                      /\ pic' = send_eoi(pic, "MASTER")
              /\ UNCHANGED << IFLAG, TIMER_TICKS >>
         [] a.pc = "check" ->
              /\ irq_stack' = SetTop([ a EXCEPT !.pc =
                     IF is_spurious(irq_bit, pic[chip].isr)
                     THEN "iret" ELSE "read_mask" ])
              /\ UNCHANGED << pic, IFLAG, TIMER_TICKS >>
         [] a.pc = "read_mask" ->
              /\ irq_stack' = SetTop([ a EXCEPT !.pc = "write_mask", !.mask = pic[chip].imr ])
              /\ UNCHANGED << pic, IFLAG, TIMER_TICKS >>
         [] a.pc = "write_mask" ->
              /\ pic' = [ pic EXCEPT ![chip].imr = mask_line(a.mask, irq_bit) ]
              /\ irq_stack' = SetTop(Did(a, "eoi", "mask"))
              /\ UNCHANGED << IFLAG, TIMER_TICKS >>
         [] a.pc = "eoi" ->
              /\ pic' = send_eoi(pic, chip)
              /\ irq_stack' = SetTop(Did(a, IF IRQ_HANDLERS[a.irq] = "None" THEN "unmask"
                                            ELSE "sti", "eoi"))
              /\ UNCHANGED << IFLAG, TIMER_TICKS >>
         [] a.pc = "sti" ->
              /\ IFLAG' = TRUE
              /\ irq_stack' = SetTop(Did(a, "handler", "sti"))
              /\ UNCHANGED << pic, TIMER_TICKS >>
         [] a.pc = "handler" ->
              /\ TIMER_TICKS' = IF IRQ_HANDLERS[a.irq] = "timer_handler"
                                THEN TIMER_TICKS + 1 ELSE TIMER_TICKS
              /\ irq_stack' = SetTop(Did(a, "cli", "handler"))
              /\ UNCHANGED << pic, IFLAG >>
         [] a.pc = "cli" ->
              /\ IFLAG' = FALSE
              /\ irq_stack' = SetTop(Did(a, "unmask", "cli"))
              /\ UNCHANGED << pic, TIMER_TICKS >>
         [] a.pc = "unmask" ->
              /\ pic' = [ pic EXCEPT ![chip].imr = a.mask ]
              /\ irq_stack' = SetTop(Did(a, "iret", "unmask"))
              /\ UNCHANGED << IFLAG, TIMER_TICKS >>
         [] a.pc = "iret" ->
              \* the interrupted context had the interrupt flag set
              /\ irq_stack' = SubSeq(irq_stack, 1, Len(irq_stack) - 1)
              /\ IFLAG' = TRUE
              /\ UNCHANGED << pic, TIMER_TICKS >>
    /\ UNCHANGED << IRQ_HANDLERS, ops >>
    /\ UNCHANGED IrqFrame

\* the vectors that arrive: the timer, the keyboard, a driver's slave line,
\* and the spurious vectors of both PICs
NextIrq ==
    \/ \E driver \in BOOLEAN : InitInterrupts(driver)
    \/ \E irq \in { 0, 1, 8 } : Deliver(irq, TRUE)
    \/ \E irq \in { 7, 15 } : Deliver(irq, FALSE)
    \/ IrqStep

SpecIrq == InitIrq /\ [][NextIrq]_vars

-----------------------------------------------------------------------------
(* Claims about handle_irq (SpecIrq)                                       *)

IsPrefix(s, t) == Len(s) <= Len(t) /\ SubSeq(t, 1, Len(s)) = s

Has(a, ev) == \E i \in 1 .. Len(a.trace) : a.trace[i] = ev

\* the activations of a real IRQ whose line has a handler
Served == { n \in 1 .. Len(irq_stack) :
              irq_stack[n].real /\ IRQ_HANDLERS[irq_stack[n].irq] # "None" }

\* C23: for every non-spurious IRQ that has a registered handler,
\* handle_irq performs, in this order: (for IRQ 8-15 an EOI to the master),
\* mask the line, EOI to the owning PIC, enable interrupts, run the
\* handler, disable interrupts, restore the mask.  The handler never starts
\* before its line is masked and the EOI is sent, and the line is never
\* unmasked while the handler runs, whatever IRQs arrive in between.
C23_HandleIrq ==
    \A n \in Served :
        LET a == irq_stack[n]
            line_masked == BitOf(a.irq) \in pic[PicOf(a.irq)].imr
        IN  /\ IsPrefix(a.trace, Expected(a.irq))
            /\ a.pc = "iret" => a.trace = Expected(a.irq)
            /\ (a.pc = "handler" \/ Has(a, "handler")) => Has(a, "mask") /\ Has(a, "eoi")
            /\ (Has(a, "mask") /\ ~Has(a, "unmask")) => line_masked
            /\ (a.pc = "handler" /\ n = Len(irq_stack)) =>
                  /\ IFLAG
                  /\ BitOf(a.irq) \notin pic[PicOf(a.irq)].isr
            /\ (a.pc = "unmask" /\ n = Len(irq_stack)) => ~IFLAG

\* the keyboard handler was interrupted by the timer, whose handle_irq has
\* run to its end
C23_Witness ==
    /\ Len(irq_stack) = 2
    /\ 1 \in Served /\ 2 \in Served
    /\ irq_stack[1].irq = 1
    /\ irq_stack[1].pc = "handler"
    /\ irq_stack[2].irq = 0
    /\ irq_stack[2].pc = "iret"
    /\ irq_stack[2].trace = Expected(0)
    /\ TIMER_TICKS = 1
    /\ 1 \in pic["MASTER"].imr

\* a slave line served to the end
C23_SlaveServed ==
    \E n \in Served : irq_stack[n].irq = 8 /\ irq_stack[n].pc = "iret"

\* the activations of a vector 39 or 47 delivered with bit 7 of the owning
\* PIC's in-service register clear
Spurious == { n \in 1 .. Len(irq_stack) :
                BitOf(irq_stack[n].irq) = 7 /\ ~irq_stack[n].in_service }

\* C24: when vector 39 (IRQ 7) or 47 (IRQ 15) is delivered while bit 7 of
\* the owning PIC's in-service register is clear, handle_irq returns without
\* sending EOI to that PIC, without changing any interrupt mask and without
\* calling the registered handler; for IRQ 15 only the cascade EOI to the
\* master is sent.
C24_SpuriousIrq ==
    \A n \in Spurious :
        LET a == irq_stack[n] IN
        /\ IsPrefix(a.trace, IF a.irq >= 8 THEN << "eoi_master" >> ELSE << >>)
        /\ a.pc \in { "isr_handler", "start", "check", "iret" }
        /\ a.pc = "iret" =>
              /\ a.trace = IF a.irq >= 8 THEN << "eoi_master" >> ELSE << >>
              /\ n = Len(irq_stack) =>
                    /\ pic["MASTER"].imr = a.at["MASTER"].imr
                    /\ pic["SLAVE"].imr = a.at["SLAVE"].imr
                    /\ pic["SLAVE"].isr = a.at["SLAVE"].isr
                    /\ pic["MASTER"].isr =
                          IF a.irq >= 8 THEN a.at["MASTER"].isr \ { CASCADE_IRQ }
                          ELSE a.at["MASTER"].isr

\* a spurious vector 47 that arrived while the keyboard handler was running
\* has returned
C24_Witness ==
    /\ Len(irq_stack) = 2
    /\ 2 \in Spurious
    /\ irq_stack[2].irq = 15
    /\ irq_stack[2].pc = "iret"
    /\ irq_stack[2].trace = << "eoi_master" >>
    /\ irq_stack[1].irq = 1
    /\ irq_stack[1].pc = "handler"

-----------------------------------------------------------------------------
(* heap.rs: the free list of the kernel allocator (SpecHeap).  Addresses   *)
(* are byte offsets from heap_base(): heap_base() is a multiple of         *)
(* PAGE_SIZE, so an address is a multiple of a power of two up to          *)
(* PAGE_SIZE exactly when its offset is.  The FreeBlock headers live in    *)
(* the free memory itself; the list is kept here as the sequence of the    *)
(* blocks that the next pointers chain, from the head on.                  *)

\* size_of::<FreeBlock>() on the 32-bit kernel: a usize and a pointer
MIN_BLOCK_SIZE == 8
\* align_of::<FreeBlock>()
FREE_BLOCK_ALIGN == 4

\* calls of alloc and dealloc per behaviour of SpecHeap
MaxHeapOps == 5

\* (val + align - 1) & !(align - 1), align being a power of two
align_up(val, align) == (val + align - 1) - ((val + align - 1) % align)

FreeBlock(addr, size) == [ addr |-> addr, size |-> size ]

\* the position of the first block of fl that satisfies P, Len(fl) + 1 if
\* the walk reaches the end of the list
First(fl, P(_)) ==
    IF \E i \in 1 .. Len(fl) : P(fl[i])
    THEN CHOOSE i \in 1 .. Len(fl) : P(fl[i]) /\ \A j \in 1 .. (i - 1) : ~P(fl[j])
    ELSE Len(fl) + 1

\* link block b in front of position i; unlink the block at position i
Link(fl, i, b) == SubSeq(fl, 1, i - 1) \o << b >> \o SubSeq(fl, i, Len(fl))
Unlink(fl, i) == SubSeq(fl, 1, i - 1) \o SubSeq(fl, i + 1, Len(fl))

\* add_free_region, "Coalesce with next block if adjacent": i is the
\* position of the block just inserted
coalesce_next(fl, i) ==
    IF i < Len(fl) /\ fl[i].addr + fl[i].size = fl[i + 1].addr
    THEN Unlink([ fl EXCEPT ![i].size = @ + fl[i + 1].size ], i + 1)
    ELSE fl

\* mutant: the block before the new one is left alone
coalesce_prev_skip(fl, addr) == fl

\* add_free_region, "Coalesce with previous block if adjacent": the list is
\* walked again up to the first block at addr
coalesce_prev(fl, addr) ==
    With(First(fl, LAMBDA b : b.addr = addr), LAMBDA j :
    IF j <= Len(fl) /\ j > 1 /\ fl[j - 1].addr + fl[j - 1].size = addr
    THEN Unlink([ fl EXCEPT ![j - 1].size = @ + fl[j].size ], j)
    ELSE fl)

add_free_region(fl, addr, size) ==
    IF size < MIN_BLOCK_SIZE THEN fl
    ELSE With(First(fl, LAMBDA b : b.addr > addr), LAMBDA i :
         coalesce_prev(coalesce_next(Link(fl, i, FreeBlock(addr, size)), i), addr))

\* alloc_from_list, "if block_size >= total_needed"
\* mutant: the size of the block is not looked at
fits_any(b, size, align) == TRUE

fits(b, size, align) == b.size >= (align_up(b.addr, align) - b.addr) + size

\* alloc_from_list, the body run for the block at position i once it fits
take(fl, i, size, align) ==
    LET block_addr == fl[i].addr
        block_size == fl[i].size
        aligned_addr == align_up(block_addr, align)
        padding == aligned_addr - block_addr
        total_needed == padding + size
    IN
    IF padding >= MIN_BLOCK_SIZE
    THEN LET remainder_size == block_size - total_needed
             kept == [ fl EXCEPT ![i].size = padding ]
         IN [ ret |-> aligned_addr,
              head |-> IF remainder_size >= MIN_BLOCK_SIZE
                       THEN Link(kept, i + 1, FreeBlock(aligned_addr + size, remainder_size))
                       ELSE kept ]
    ELSE IF padding > 0
    THEN LET actual_size == size + padding
             remainder_size == block_size - actual_size
         IN [ ret |-> block_addr,
              head |-> IF remainder_size >= MIN_BLOCK_SIZE
                       THEN [ fl EXCEPT ![i] = FreeBlock(block_addr + actual_size,
                                                         remainder_size) ]
                       ELSE Unlink(fl, i) ]
    ELSE LET remainder_size == block_size - size
         IN [ ret |-> aligned_addr,
              head |-> IF remainder_size >= MIN_BLOCK_SIZE
                       THEN [ fl EXCEPT ![i] = FreeBlock(aligned_addr + size,
                                                         remainder_size) ]
                       ELSE Unlink(fl, i) ]

\* first fit; NONE is the None of Option<*mut u8>
alloc_from_list(fl, size, align) ==
    With(First(fl, LAMBDA b : fits(b, size, align)), LAMBDA i :
    IF i > Len(fl) THEN [ ret |-> NONE, head |-> fl ]
    ELSE take(fl, i, size, align))

Layout(size, align) == [ size |-> size, align |-> align ]

\* GlobalAlloc::alloc; a null pointer is NONE.  me is mapped_end as a page
\* index, grew tells that extend_heap was called.
alloc(k, fl, me, layout) ==
    LET size == Max(layout.size, MIN_BLOCK_SIZE)
        align == Max(layout.align, FREE_BLOCK_ALIGN)
        pages_needed == Max((size + align + PAGE_SIZE - 1) \div PAGE_SIZE, HEAP_MIN_PAGES)
    IN
    With(alloc_from_list(fl, size, align), LAMBDA r :
    IF r.ret # NONE
    THEN [ ret |-> r.ret, head |-> r.head, k |-> k, me |-> me, grew |-> FALSE ]
    ELSE With(extend_heap(k, me, pages_needed), LAMBDA x :
         IF ~x.ok
         THEN [ ret |-> NONE, head |-> fl, k |-> x.k, me |-> x.me, grew |-> TRUE ]
         ELSE With(alloc_from_list(
                       add_free_region(fl,
                                       (x.me - pages_needed - HEAP_BASE_IDX) * PAGE_SIZE,
                                       pages_needed * PAGE_SIZE),
                       size, align), LAMBDA r2 :
              [ ret |-> r2.ret, head |-> r2.head, k |-> x.k, me |-> x.me,
                grew |-> TRUE ])))

\* GlobalAlloc::dealloc
dealloc(fl, ptr, layout) == add_free_region(fl, ptr, Max(layout.size, MIN_BLOCK_SIZE))

\* the layouts the callers ask for: a size that is no multiple of four, one
\* that is no multiple of its alignment, a larger alignment, and a block as
\* large as a whole extension of the heap
Layouts ==
    { Layout(9, 1), Layout(12, 4), Layout(12, 8), Layout(24, 16),
      Layout(HEAP_MIN_PAGES * PAGE_SIZE, 4) }

\* the kernel after heap::init, before the first allocation
InitHeap == InitTrap

\* bytes on the free list
RECURSIVE free_bytes(_)
free_bytes(fl) == IF fl = << >> THEN 0 ELSE Head(fl).size + free_bytes(Tail(fl))

HeapFrame == << cr3, NUM_FREE_PAGE_DIRS, PAGING_MODE, NX_ENABLED, dev, console, THREADS,
                CURRENT_THREAD, SEED, regs >>

\* a call of alloc by kernel code
HeapAlloc(layout) ==
    /\ mode = "boot"
    /\ ops < MaxHeapOps
    /\ ops' = ops + 1
    /\ \E a \in { alloc(Now, head, mapped_end, layout) } :
        /\ head' = a.head
        /\ mapped_end' = a.me
        /\ PAGE_REFS' = a.k.refs
        /\ NEXT_FREE' = a.k.next
        /\ mem' = a.k.mem
        /\ mode' = IF a.k.st = "ok" THEN mode ELSE a.k.st
        /\ allocated' = IF a.ret = NONE THEN allocated
                        ELSE allocated \cup { [ ptr |-> a.ret, layout |-> layout ] }
        /\ last' = [ op |-> "alloc", arg |-> layout, ret |-> a.ret, grew |-> a.grew,
                     pre |-> [ head |-> head, allocated |-> allocated ] ]
    /\ prev' = last
    /\ UNCHANGED HeapFrame

\* a call of dealloc with a pointer alloc returned and the layout it was
\* asked with
HeapDealloc(b) ==
    /\ mode = "boot"
    /\ ops < MaxHeapOps
    /\ ops' = ops + 1
    /\ b \in allocated
    /\ head' = dealloc(head, b.ptr, b.layout)
    /\ allocated' = allocated \ { b }
    /\ last' = [ op |-> "dealloc", arg |-> b.layout, ret |-> b.ptr, grew |-> FALSE,
                 pre |-> [ head |-> head, allocated |-> allocated ] ]
    /\ prev' = last
    /\ UNCHANGED << PAGE_REFS, NEXT_FREE, mem, mapped_end, mode >>
    /\ UNCHANGED HeapFrame

NextHeap ==
    \/ \E layout \in Layouts : HeapAlloc(layout)
    \/ \E b \in allocated : HeapDealloc(b)

SpecHeap == InitHeap /\ [][NextHeap]_vars

-----------------------------------------------------------------------------
(* Claims about the heap (SpecHeap)                                        *)

\* C26: every non-null pointer that alloc(layout) returns is a multiple of
\* layout.align(), whatever the layouts of the calls made so far.
C26_Original ==
    (last.op = "alloc" /\ last.ret # NONE) => last.ret % last.arg.align = 0

\* what the code guarantees instead: the pointer lies inside the block that
\* was taken, at its start or at the aligned address within it
C26_InsideBlock ==
    (last.op = "alloc" /\ last.ret # NONE /\ ~last.grew) =>
        \E i \in 1 .. Len(last.pre.head) :
            /\ last.ret >= last.pre.head[i].addr
            /\ last.ret + Max(last.arg.size, MIN_BLOCK_SIZE)
                   <= last.pre.head[i].addr + last.pre.head[i].size

\* C27: alloc(layout) served from the existing free list and followed at
\* once by dealloc(ptr, layout) leaves as many bytes on the free list as
\* there were before the alloc.
C27_Original ==
    (/\ last.op = "dealloc"
     /\ prev.op = "alloc"
     /\ prev.ret = last.ret
     /\ prev.arg = last.arg
     /\ ~prev.grew)
    => free_bytes(head) = free_bytes(prev.pre.head)

\* the bytes that come back are never more than were taken
C27_NeverMore ==
    (/\ last.op = "dealloc"
     /\ prev.op = "alloc"
     /\ prev.ret = last.ret
     /\ prev.arg = last.arg
     /\ ~prev.grew)
    => free_bytes(head) <= free_bytes(prev.pre.head)

\* the list fl is strictly increasing by address and no two blocks touch
Coalesced(fl) ==
    \A i \in 1 .. (Len(fl) - 1) : fl[i].addr + fl[i].size < fl[i + 1].addr

\* C28: after every alloc, dealloc and extension of the heap the free list
\* is strictly increasing in block address and fully coalesced.
C28_FreeListSorted == Coalesced(head)

\* a dealloc has merged the block with the free block in front of it, and
\* another free block follows further up
C28_Witness ==
    /\ last.op = "dealloc"
    /\ Len(head) >= 2
    /\ \E i \in 1 .. Len(head) :
           head[i].addr < last.ret /\ last.ret < head[i].addr + head[i].size

\* an extension of the heap has been merged with the free block that ended
\* at mapped_end
C28_Extended ==
    /\ last.op = "alloc"
    /\ last.grew
    /\ last.ret # NONE
    /\ last.pre.head # << >>
    /\ Len(head) <= Len(last.pre.head)

-----------------------------------------------------------------------------
(* syscalls.rs: dispatch (SpecDispatch).  The rax slot of the trap frame   *)
(* is a u64, kept here as its eight bytes, least significant first.        *)

ENOSYS == -38

SYSCALL_TABLE ==
    << "sys_exit", "sys_yield", "None", "None", "sys_fork", "sys_exec", "sys_open",
       "None", "sys_read", "sys_write" >>

\* the four bytes of a value in 0 .. 2^31 - 1
le_bytes(n) == << n % 256, (n \div 256) % 256, (n \div 65536) % 256, n \div 16777216 >>

\* `result as u32`: the two's complement of an i32, as four bytes
as_u32(result) ==
    IF result >= 0 THEN le_bytes(result)
    ELSE [ le_bytes((result + 2147483647) + 1) EXCEPT ![4] = @ + 128 ]

\* mutant: the upper half copies the sign
as_u64_signed(b) == b \o (IF b[4] >= 128 THEN << 255, 255, 255, 255 >> ELSE << 0, 0, 0, 0 >>)

\* `as u64` of a u32: the upper half is zero
as_u64(b) == b \o << 0, 0, 0, 0 >>

\* `regs.rax as usize` on the 32-bit kernel: the low four bytes
as_usize(rax) == SubSeq(rax, 1, 4)

\* the entry of SYSCALL_TABLE that dispatch selects, "None" as well when
\* syscall_num >= SYSCALL_TABLE.len()
handler_of(syscall_num) ==
    IF syscall_num[2] = 0 /\ syscall_num[3] = 0 /\ syscall_num[4] = 0
       /\ syscall_num[1] < Len(SYSCALL_TABLE)
    THEN SYSCALL_TABLE[syscall_num[1] + 1]
    ELSE "None"

\* the values user code leaves in rax before int 0x80: the handlers that
\* SpecYield runs, the holes of the table, numbers past its end, and the
\* same with the upper half of the slot in use
RaxInputs ==
    { as_u64(le_bytes(n)) : n \in { 0, 1, 2, 7, 10, 257 } }
    \cup { as_u64(as_u32(-1)), le_bytes(2) \o le_bytes(1), le_bytes(1) \o le_bytes(1) }

\* a trap frame with its rax slot as bytes
Widen(f) == [ f EXCEPT !.rax = as_u64(as_u32(@)) ]

\* the states of InitYield, every saved frame with its rax slot as bytes
InitDispatch ==
    /\ \E t \in SchedTables :
          THREADS = [ i \in ThreadIdx |-> [ t[i] EXCEPT !.cpu_state = Widen(@) ] ]
    /\ CURRENT_THREAD \in ThreadIdx
    /\ \A i \in ThreadIdx :
          (i # 0 /\ i # CURRENT_THREAD) => THREADS[i].state # "Running"
    /\ SEED \in SeedSamples
    /\ cr3 = THREADS[CURRENT_THREAD].page_dir
    /\ regs = Widen(init_user_process(0))
    /\ PAGE_REFS = BootRefs
    /\ NEXT_FREE = kernel_high
    /\ mem = BootMem
    /\ NUM_FREE_PAGE_DIRS = 0
    /\ PAGING_MODE = "Legacy"
    /\ NX_ENABLED = FALSE
    /\ mapped_end = HEAP_BASE_IDX
    /\ mode = "user"
    /\ last = NoOp
    /\ prev = NoOp
    /\ ops = 0
    /\ DevInit
    /\ HeapInit
    /\ ConsoleInit

\* dispatch(regs) with the frame of a syscall whose rax slot holds rax
Dispatch(rax) ==
    /\ mode = "user"
    /\ \E handler \in { handler_of(as_usize(rax)) } :
       IF handler = "sys_yield"
       THEN sys_yield([ regs EXCEPT !.rax = rax ], as_u64(as_u32(0)))
       ELSE IF handler = "sys_exit" THEN sys_exit([ regs EXCEPT !.rax = rax ])
       ELSE /\ handler = "None"
            /\ last' = [ op |-> "dispatch", arg |-> rax, ret |-> ENOSYS, pre |-> Snapshot ]
            /\ regs' = [ regs EXCEPT !.rax = as_u64(as_u32(ENOSYS)) ]
            /\ UNCHANGED << PAGE_REFS, NEXT_FREE, mem, cr3, NUM_FREE_PAGE_DIRS, PAGING_MODE,
                            NX_ENABLED, dev, kheap, console, mapped_end, THREADS, CURRENT_THREAD,
                            SEED, mode, prev, ops >>

NextDispatch == \E rax \in RaxInputs : Dispatch(rax)

SpecDispatch == InitDispatch /\ [][NextDispatch]_vars

-----------------------------------------------------------------------------
(* Claims about dispatch (SpecDispatch)                                    *)

\* eax, the low half of the slot, holds one of the numbers that have a
\* handler
Handled(rax) ==
    /\ rax[2] = 0 /\ rax[3] = 0 /\ rax[4] = 0
    /\ rax[1] \in { 0, 1, 4, 5, 6, 8, 9 }

\* 0xFFFFFFDA in the low half, zero in the upper half
ENOSYS_U64 == << 218, 255, 255, 255, 0, 0, 0, 0 >>

C29_PastEnd ==
    /\ last.op = "dispatch"
    /\ as_usize(last.arg) = << 1, 1, 0, 0 >>
    /\ regs.rax = ENOSYS_U64

-----------------------------------------------------------------------------
(* SpecFork: fork on the kernel with the page-directory pool filled as     *)
(* init_page_dir_pool fills it, so that fork_current gets past             *)
(* alloc_page_dir and runs the traversal of fork_current_generic.          *)
(* (KernelInit never calls init_page_dir_pool; with the pool empty, as in  *)
(* every other specification, the traversal is not reached.)  The memory   *)
(* map is the small one or the one that fills the table.                   *)

InitFork ==
    /\ PAGING_MODE \in { "Legacy", "Pae" }
    /\ NX_ENABLED \in BOOLEAN
    /\ NX_ENABLED => PAGING_MODE = "Pae"
    /\ mapped_end = HEAP_BASE_IDX
    /\ PAGE_REFS \in { BootRefs, BootRefsTrap }
    /\ NEXT_FREE = kernel_high
    /\ mem = IF PAGING_MODE = "Pae" THEN BootMemPae(NX_ENABLED) ELSE BootMem
    /\ cr3 = PD_PHYS
    /\ NUM_FREE_PAGE_DIRS = init_page_dir_pool
    /\ THREADS = [ i \in ThreadIdx |-> Thread_empty ]
    /\ CURRENT_THREAD = NULL
    /\ SEED = SEED_INIT
    /\ regs = CpuState_empty
    /\ mode = "boot"
    /\ last = NoOp
    /\ prev = NoOp
    /\ ops = 0
    /\ DevInit
    /\ HeapInit
    /\ ConsoleInit

\* an executable whose second PT_LOAD header has p_filesz = 0: a writable
\* segment of zero-initialised data, for which SegmentIter yields data: None
BssElf == [ ok |-> TRUE, entry |-> TEXT_PAGE,
            segs |-> << Segment(TEXT_PAGE, 1, 1, FALSE, TRUE),
                        Segment(TEXT_PAGE + 1, 1, 0, TRUE, FALSE) >> ]

NextFork ==
    \/ InitThreading
    \/ \E header_cached \in BOOLEAN : Startup(InitElf, header_cached)
    \/ \E file \in ExecFiles \cup { BssElf } : SysExec(TRUE, file)
    \/ SysFork
    \/ \E v \in UserProbe : UserAccess(v, "wr_dat", "A")
    \/ \E v \in UserProbe : UserAccess(v, "rd_dat", "zero")

SpecFork == InitFork /\ [][NextFork]_vars

C31_ForkPanics ==
    (/\ last.op = "fork"
     /\ last.pre.num_free > 0
     /\ free_page_count(last.pre.refs) >= 2) => (mode = "panic" /\ last.oob)

C32_NoSlot ==
    (last.op = "fork" /\ last.pre.num_free = 0) =>
        /\ last.ret = ENOMEM
        /\ regs.rax = ENOMEM
        /\ NUM_FREE_PAGE_DIRS = 0
        /\ PAGE_REFS = last.pre.refs
        /\ mem = last.pre.mem


-----------------------------------------------------------------------------
(* syscalls.rs:126-170: the error returns of sys_exec (SpecTrap)           *)

\* the user part of the address space under root: the user entries of the
\* root, the tables below them and the contents of the pages they map
UserSpace(m, root) ==
    LET tables == (UserTables(m, root)
                   \cup (IF PAGING_MODE = "Pae" THEN Children(m, UserTables(m, root))
                         ELSE {})) \cap PageIdx
        leaves == UserLeafPages(m, root) \cap PageIdx
    IN  [ root   |-> [ i \in { j \in DOMAIN m[root].ent : j < RootIndex } |->
                         m[root].ent[i] ],
          tables |-> [ q \in tables |-> m[q].ent ],
          data   |-> [ q \in leaves |-> m[q].dat ] ]

\* exec has returned an error code to its caller
ExecFailed == last.op = "exec" /\ last.ret \in { "ENOENT", "ENOEXEC" }

-----------------------------------------------------------------------------
(* lib.rs:156-158, traps.rs:284-300, elf.rs:16-33: the shared zero page    *)

\* the tables that hold the user entries of the address space under root,
\* at every level
UserEntryTables(m, root) ==
    (UserTables(m, root)
     \cup (IF PAGING_MODE = "Pae" THEN Children(m, UserTables(m, root)) ELSE {}))
    \cap PageIdx

\* a present entry of the user range maps the zero page writable
ZeroWritable(m, root) ==
    \/ \E i \in { j \in DOMAIN m[root].ent : j < RootIndex } :
          m[root].ent[i].p /\ m[root].ent[i].page = ZERO_PHYS /\ m[root].ent[i].w
    \/ \E q \in UserEntryTables(m, root) \ { ZERO_PHYS } :
          \E i \in DOMAIN m[q].ent :
              m[q].ent[i].p /\ m[q].ent[i].page = ZERO_PHYS /\ m[q].ent[i].w

\* C34: in every reachable state no page-table entry of the user range of
\* any live address space maps the shared zero page writable, the reference
\* count of the zero page is RESERVED and its contents are all zero.
C34_Original ==
    /\ \A root \in LiveRoots \cap PageIdx : ~ZeroWritable(mem, root)
    /\ PAGE_REFS[ZERO_PHYS] = RESERVED
    /\ mem[ZERO_PHYS].dat = "zero"

\* the count of the zero page never changes
C34_CountReserved == PAGE_REFS[ZERO_PHYS] = RESERVED

-----------------------------------------------------------------------------
(* startup.rs:141-172, traps.rs:228-243: the scratch page during startup   *)

\* startup has loaded init.elf and entered the init thread
StartupLoaded ==
    /\ last.op = "startup"
    /\ last.ret = "ok"
    /\ mode = "user"
    /\ last.arg.segs # << >>
    /\ last.arg.segs[1].filesz > 0

\* C35: while startup holds init.elf in the scratch page and load_elf reads
\* from it, the page-fault handling that load_elf's writes trigger does not
\* overwrite the scratch page: when startup has entered init the scratch
\* page still holds the file and the first page of the first segment holds
\* the bytes of the file.
C35_Original ==
    StartupLoaded =>
        /\ mem[SCRATCH_PHYS].dat = "elf"
        /\ pte(last.arg.segs[1].vaddr).p
        /\ mem[pte(last.arg.segs[1].vaddr).page].dat = "elf"

\* what the code does: the first write of load_elf takes the copy in
\* handle_cow_fault, which leaves the zero page in the scratch page, and
\* the copy of the segment goes on reading there
C35_Clobbered ==
    StartupLoaded =>
        /\ mem[SCRATCH_PHYS].dat = "zero"
        /\ pte(last.arg.segs[1].vaddr).p
        /\ mem[pte(last.arg.segs[1].vaddr).page].dat = "zero"

-----------------------------------------------------------------------------
(* irq.rs:133-171, traps.rs:344-352: re-entry of an IRQ handler (SpecIrq)  *)

\* the activation has enabled interrupts and called the registered handler,
\* which has not returned
InHandler(a) == a.pc = "handler"

\* C36: with nested interrupts, for every IRQ line k the handler of line k
\* is never entered again while an earlier invocation of it has not
\* returned: no two activations on the interrupt stack are inside the
\* handler of the same line, and while the handler of a line runs no other
\* activation of that line has been taken by the CPU at all.
C36_NoReentry ==
    \A i, j \in 1 .. Len(irq_stack) :
        (i < j /\ irq_stack[i].irq = irq_stack[j].irq /\ InHandler(irq_stack[i]))
            => (~irq_stack[j].real /\ ~InHandler(irq_stack[j]))

\* the timer handler has been interrupted by the keyboard's, and the timer
\* has ticked before: a second timer interrupt was due
C36_Witness ==
    /\ Len(irq_stack) >= 2
    /\ irq_stack[1].irq = 0
    /\ InHandler(irq_stack[1])
    /\ irq_stack[2].irq = 1
    /\ InHandler(irq_stack[2])
    /\ ~Accepts(pic, "MASTER", 0)

-----------------------------------------------------------------------------
(* lib/src/vga.rs:85-147 Vga::putchar, syscalls.rs:221-237 sys_write,      *)
(* irq.rs:117-121 keyboard_handler.  SpecConsole: a write syscall prints   *)
(* its buffer byte by byte with interrupts enabled (isr_handler sets IF);  *)
(* the keyboard IRQ can arrive between any two accesses to the Vga state   *)
(* and its handler prints a line through the same global.  The attribute   *)
(* and the escape parameter, which select colours only, are left out.      *)

\* write syscalls made and keyboard interrupts taken in one behaviour
MaxWrites == 3

\* the bytes that take different paths through putchar: a printable one, a
\* digit, and the controls
Bytes == { "A", "1", "LF", "CR", "ESC", "[", "m" }

\* c.is_ascii_digit()
is_ascii_digit(c) == c = "1"

\* the buffers user code writes
WriteBufs ==
    { << "A" >>, << "LF" >>, << "A", "LF" >>, << "CR", "A" >>, << "ESC", "[", "1", "m", "A" >> }

\* println!("Key: {:#04x}", scancode): ten printable bytes (all take the
\* path of "A", the two hexadecimal digits that of "1") and the newline
KeyLine == << "A", "A", "A", "A", "A", "1", "A", "1", "1", "LF" >>

\* a writer: the bytes still to print, the first being the argument of the
\* putchar call in progress, the position in that call, and its locals
Writer(ctx, s) ==
    [ ctx |-> ctx, s |-> s, pc |-> "putchar", offset |-> 0, x |-> 0, y |-> 0 ]

\* cursor positions the console comes to by printing
CursorX == { 0, VGA_WIDTH - 1 }
CursorY == { 0, VGA_HEIGHT - 1 }

\* a user thread runs, init_interrupts has registered the two handlers and
\* interrupts are enabled; the console has printed before
InitConsole ==
    /\ pic = register_irq(register_irq(remap_pic, [ i \in 0 .. 15 |-> "None" ], 0,
                                       "timer_handler").pic,
                          [ i \in 0 .. 15 |-> "None" ], 1, "keyboard_handler").pic
    /\ IFLAG = TRUE
    /\ IRQ_HANDLERS = [ i \in 0 .. 15 |-> IF i = 0 THEN "timer_handler"
                                          ELSE IF i = 1 THEN "keyboard_handler"
                                          ELSE "None" ]
    /\ TIMER_TICKS = 0
    /\ irq_stack = << >>
    /\ mode = "user"
    /\ ops = 0
    /\ last = NoOp
    /\ prev = NoOp
    /\ THREADS = [ i \in ThreadIdx |-> Thread_empty ]
    /\ CURRENT_THREAD = NULL
    /\ SEED = SEED_INIT
    /\ regs = CpuState_empty
    /\ cr3 = PD_PHYS
    /\ PAGE_REFS = BootRefs
    /\ NEXT_FREE = kernel_high
    /\ mem = << >>
    /\ NUM_FREE_PAGE_DIRS = 0
    /\ PAGING_MODE = "Legacy"
    /\ NX_ENABLED = FALSE
    /\ mapped_end = 0
    /\ HeapInit
    /\ \E cached \in BOOLEAN, x \in CursorX, y \in CursorY :
          VGA = [ Vga_new(cached) EXCEPT !.cursor_x = x, !.cursor_y = y ]
    /\ put_stack = << >>

ConsoleFrame == << PAGE_REFS, NEXT_FREE, mem, cr3, NUM_FREE_PAGE_DIRS, PAGING_MODE,
                   NX_ENABLED, mapped_end, THREADS, CURRENT_THREAD, SEED, regs,
                   last, prev, dev, kheap >>

\* sys_write(fd = 1 or 2, buf, len) enters its loop
SysWrite(buf) ==
    /\ mode = "user"
    /\ put_stack = << >>
    /\ ops < MaxWrites
    /\ ops' = ops + 1
    /\ put_stack' = << Writer("sys_write", buf) >>
    /\ UNCHANGED << VGA, mode >>
    /\ UNCHANGED ConsoleFrame

\* the keyboard IRQ is taken and keyboard_handler starts its println; the
\* line is masked while the handler runs
KeyboardIrq ==
    /\ mode = "user"
    /\ put_stack # << >>
    /\ \A i \in 1 .. Len(put_stack) : put_stack[i].ctx # "keyboard_handler"
    /\ ops < MaxWrites
    /\ ops' = ops + 1
    /\ put_stack' = Append(put_stack, Writer("keyboard_handler", KeyLine))
    /\ UNCHANGED << VGA, mode >>
    /\ UNCHANGED ConsoleFrame

\* the cursor a putchar call works on: the fields of the global, or the
\* registers that hold them
cursor_of(a) ==
    IF VGA.cached THEN [ x |-> a.x, y |-> a.y ]
    ELSE [ x |-> VGA.cursor_x, y |-> VGA.cursor_y ]

\* self.cursor_y += 1
line_feed(y) == y + 1

\* the call goes on at pc with the cursor (x, y)
Goes(a, pc, x, y, offset) ==
    /\ put_stack' = [ put_stack EXCEPT ![Len(put_stack)] =
                        IF VGA.cached
                        THEN [ a EXCEPT !.pc = pc, !.x = x, !.y = y, !.offset = offset ]
                        ELSE [ a EXCEPT !.pc = pc, !.offset = offset ] ]
    /\ VGA' = IF VGA.cached THEN VGA ELSE [ VGA EXCEPT !.cursor_x = x, !.cursor_y = y ]
    /\ mode' = mode

\* the call returns with the cursor (x, y) and the escape state esc: the
\* writer goes on with its next byte or returns itself
Returns(a, x, y, esc) ==
    /\ VGA' = [ VGA EXCEPT !.cursor_x = x, !.cursor_y = y, !.esc_state = esc ]
    /\ put_stack' =
          IF Len(a.s) = 1 THEN SubSeq(put_stack, 1, Len(put_stack) - 1)
          ELSE [ put_stack EXCEPT ![Len(put_stack)] =
                   [ a EXCEPT !.s = Tail(a.s), !.pc = "putchar", !.offset = 0,
                              !.x = 0, !.y = 0 ] ]
    /\ mode' = mode

\* one step of Vga::putchar for the innermost writer
PutStep ==
    /\ mode = "user"
    /\ put_stack # << >>
    /\ LET a == put_stack[Len(put_stack)]
           c == Head(a.s)
           cur == cursor_of(a)
       IN
       CASE a.pc = "putchar" ->
              \* a cached call loads the cursor here
              LET x == VGA.cursor_x
                  y == VGA.cursor_y
              IN
              IF VGA.esc_state = "Escape"
              THEN Returns(a, x, y, IF c = "[" THEN "Csi" ELSE "Normal")
              ELSE IF VGA.esc_state = "Csi"
              THEN Returns(a, x, y, IF is_ascii_digit(c) THEN "Csi" ELSE "Normal")
              ELSE IF c = "ESC"
              THEN /\ VGA' = [ VGA EXCEPT !.esc_state = "Escape" ]
                   /\ put_stack' = [ put_stack EXCEPT ![Len(put_stack)] =
                                       IF VGA.cached
                                       THEN [ a EXCEPT !.pc = "check", !.x = x, !.y = y ]
                                       ELSE [ a EXCEPT !.pc = "check" ] ]
                   /\ mode' = mode
              ELSE IF c = "LF" THEN Goes(a, "line_feed", 0, y, 0)
              ELSE IF c = "CR" THEN Goes(a, "check", 0, y, 0)
              ELSE Goes(a, "store", x, y, y * VGA_WIDTH + x)
         [] a.pc = "line_feed" -> Goes(a, "check", cur.x, line_feed(cur.y), 0)
         [] a.pc = "store" ->
              \* self.buffer()[offset]: the slice has VGA_SIZE elements
              IF a.offset >= VGA_SIZE
              THEN /\ mode' = "panic"
                   /\ UNCHANGED << VGA, put_stack >>
              ELSE /\ put_stack' = [ put_stack EXCEPT ![Len(put_stack)].pc = "inc_x" ]
                   /\ UNCHANGED << VGA, mode >>
         [] a.pc = "inc_x" -> Goes(a, "wrap", cur.x + 1, cur.y, a.offset)
         [] a.pc = "wrap" ->
              IF cur.x >= VGA_WIDTH THEN Goes(a, "wrap_y", 0, cur.y, a.offset)
              ELSE Goes(a, "check", cur.x, cur.y, a.offset)
         [] a.pc = "wrap_y" -> Goes(a, "check", cur.x, line_feed(cur.y), a.offset)
         [] a.pc = "check" ->
              \* self.scroll() moves the rows and leaves the cursor alone
              IF cur.y >= VGA_HEIGHT THEN Goes(a, "clamp", cur.x, cur.y, a.offset)
              ELSE Returns(a, cur.x, cur.y, VGA.esc_state)
         [] a.pc = "clamp" -> Returns(a, cur.x, VGA_HEIGHT - 1, VGA.esc_state)
    /\ UNCHANGED ops
    /\ UNCHANGED ConsoleFrame

NextConsole ==
    \/ \E buf \in WriteBufs : SysWrite(buf)
    \/ KeyboardIrq
    \/ PutStep

SpecConsole == InitConsole /\ [][NextConsole]_vars

\* C37: for every interleaving of a console write made in syscall context
\* with the keyboard handler's print, cursor_x < 80 and cursor_y < 25 hold
\* at every point where putchar can be interrupted and re-entered, and no
\* putchar call indexes the screen at an offset of 80 * 25 or more.
C37_Original ==
    /\ VGA.cursor_x < VGA_WIDTH
    /\ VGA.cursor_y < VGA_HEIGHT
    /\ mode # "panic"

\* no cell outside the screen is ever stored: the slice index is checked
C37_CellInScreen ==
    \A i \in 1 .. Len(put_stack) :
        put_stack[i].pc \in { "inc_x", "wrap", "wrap_y" } => put_stack[i].offset < VGA_SIZE

\* in a build that keeps the cursor of a call in registers the fields never
\* hold a value outside the screen
C37_Cached == VGA.cached => C37_Original

-----------------------------------------------------------------------------
(* syscalls.rs:79-87 sys_yield, thread.rs:241-252 save_state: the value    *)
(* in eax after yield (SpecYield)                                          *)

\* a yield syscall has ended in user mode: in the caller when last.ret is
\* NONE, in the thread last.ret otherwise
AfterYield == last.op = "yield" /\ mode = "user"

C38_SavedNumber ==
    AfterYield =>
        IF last.ret = NONE THEN regs.rax = 0
        ELSE /\ THREADS[last.arg].cpu_state.rax = 1
             /\ regs = THREADS[last.ret].cpu_state

-----------------------------------------------------------------------------
(* heap.rs:176-291: live allocations and the free list (SpecHeap)          *)

\* the ranges [a, a + m) and [b, b + n) have no byte in common
Apart(a, m, b, n) == a + m <= b \/ b + n <= a

\* the bytes of a live allocation: those its dealloc will give back
Extent(b) == Max(b.layout.size, MIN_BLOCK_SIZE)

\* C39: for every sequence of alloc and dealloc calls in which each dealloc
\* matches an earlier alloc with the same layout, no two live allocations
\* overlap (a pointer alloc returns is apart from every allocation live at
\* that time) and no live allocation overlaps a block on the free list.
C39_NoOverlap ==
    /\ \A b1, b2 \in allocated :
           b1 # b2 => Apart(b1.ptr, Extent(b1), b2.ptr, Extent(b2))
    /\ (last.op = "alloc" /\ last.ret # NONE) =>
           \A b \in last.pre.allocated :
               Apart(last.ret, Max(last.arg.size, MIN_BLOCK_SIZE), b.ptr, Extent(b))
    /\ \A b \in allocated : \A i \in 1 .. Len(head) :
           Apart(b.ptr, Extent(b), head[i].addr, head[i].size)

\* an alloc has been served from the free list after a dealloc, next to
\* two live allocations, and free blocks remain
C39_Witness ==
    /\ last.op = "alloc"
    /\ last.ret # NONE
    /\ ~last.grew
    /\ prev.op = "dealloc"
    /\ Cardinality(allocated) >= 3
    /\ head # << >>

-----------------------------------------------------------------------------
(* phys_mm.rs:28-72, 94-117: termination of alloc_phys_page from every     *)
(* state init_phys_mm can build (SpecPhysAny)                              *)

\* memory maps: the two of the other specifications, one with no usable
\* RAM above the first megabyte, and one with a single page of it
MMaps ==
    { MMap, MMapAll, { [ lo |-> 0, hi |-> 1 ] },
      { [ lo |-> 0, hi |-> 1 ], [ lo |-> LOW_PAGES, hi |-> LOW_PAGES + 1 ] } }

\* kernel page ranges [lo, hi): where the bootloader of this repository
\* puts the image, at the end of the table, past its end, and inside the
\* first megabyte
KernelRanges ==
    { [ lo |-> kernel_low, hi |-> kernel_high ],
      [ lo |-> MAX_PAGES - 2, hi |-> MAX_PAGES ],
      [ lo |-> MAX_PAGES - 1, hi |-> MAX_PAGES + 1 ],
      [ lo |-> LOW_PAGES - 1, hi |-> LOW_PAGES ],
      [ lo |-> 0, hi |-> LOW_PAGES - 1 ] }

\* the allocator as init_phys_mm leaves it
InitPhysAny ==
    /\ \E mmap \in MMaps, kernel \in KernelRanges :
          \E i \in { init_phys_mm(mmap, kernel.lo, kernel.hi) } :
              /\ PAGE_REFS = i.refs
              /\ NEXT_FREE = i.next
    /\ mem = << >>
    /\ cr3 = PD_PHYS
    /\ NUM_FREE_PAGE_DIRS = 0
    /\ PAGING_MODE = "Legacy"
    /\ NX_ENABLED = FALSE
    /\ mapped_end = 0
    /\ THREADS = << >>
    /\ CURRENT_THREAD = NULL
    /\ SEED = 0
    /\ regs = << >>
    /\ mode = "phys"
    /\ last = NoOp
    /\ prev = NoOp
    /\ ops = 0
    /\ DevInit
    /\ HeapInit
    /\ ConsoleInit

SpecPhysAny == InitPhysAny /\ [][NextPhys]_vars

C40_InRange ==
    (last.op = "alloc" /\ last.arg \in (LOW_PAGES + 1) .. MAX_PAGES) =>
        /\ last.ret # HANG
        /\ NEXT_FREE \in (LOW_PAGES + 1) .. MAX_PAGES

\* with the cursor anywhere else, 256 included, and no free page the scan
\* never ends: page takes the value 256 only by the wrap, after the test
\* page == start
C40_Outside ==
    (/\ last.op = "alloc"
     /\ last.arg \notin (LOW_PAGES + 1) .. MAX_PAGES
     /\ \A p \in PageIdx : last.pre[p] # 0)
    => last.ret = HANG

=============================================================================
